---- MODULE Spec2Model ----
(***************************************************************************)
(* A model of the gitpow repository commands: the status and conflict      *)
(* parsers, hunk-level staging, conflict resolution and the branch         *)
(* metadata builder.                                                       *)
(*                                                                         *)
(* Text is modelled as a sequence of one-character strings, so that        *)
(* prefixes, byte offsets, split and trim are computed as the code         *)
(* computes them.  Option<T> is a sequence of length 0 (None) or 1 (Some). *)
(***************************************************************************)
EXTENDS Integers, Sequences, FiniteSets, TLC

VARIABLES
    status_out,   \* stdout of `git status --porcelain` handed to the parsers
    parsed,       \* what get_status / get_conflicts returned for status_out
    enumA,        \* branch names in the order repo.branches() yields them
    enumB,        \* the same branch set, enumerated in another order
    oids,         \* revparse_single: branch name -> Option<Oid string>
    oidsB,        \* revparse_single in the repository enumerated as enumB
    now,          \* chrono::Utc::now() in seconds since the epoch
    commits,      \* the commit graph: commit -> [parents, time]
    revs,         \* revparse_single: revision text -> [code, id]
    info,         \* BranchInfo returned for enumA / enumB
    worktree,     \* path -> Option<content>  (working-tree files)
    index,        \* path -> index entry (merged content, unmerged code, or absent)
    scratch,      \* Option<patch text>: the file .git/tmp-patch-temp
    dirs,         \* the directories of the working tree that exist
    call,         \* the last command and its request
    ret,          \* the last command's return value
    initial_conflicts,  \* the paths that were conflicted in the initial state
    resolved_ok,  \* the paths for which resolve_conflict has returned success
    repo_dir,     \* what the repository path is: "repo", "plain", "missing", "file"
    objects,      \* the commit a ref names: [resolves, has_parent, parent, current]
    diffs,        \* the last result of get_diff and of get_file_diff
    threads,      \* thread -> the command it runs and how far it has come
    config,       \* the Mutex<Config> of the application: [holder, poisoned]
    diff_stdout,  \* stdout of `git diff` handed to parse_hunks and to stage's loop
    remotes,      \* per remote of the repository, in order: what fetching it gives
    fetched,      \* the remotes fetch_all has called fetch on, in order
    interrupted   \* the state in which the last stage / resolve_conflict call began,
                  \* when that call stopped after its write step; None otherwise

vars == <<status_out, parsed, enumA, enumB, oids, oidsB, now, commits, revs, info,
          worktree, index, scratch, dirs, call, ret, initial_conflicts, resolved_ok,
          repo_dir, objects, diffs, threads, config, diff_stdout, remotes, fetched,
          interrupted>>

statusVars == <<status_out, parsed>>
branchVars == <<enumA, enumB, oids, oidsB, now, commits, revs, info>>
repoVars   == <<worktree, index, scratch, dirs, call, ret, initial_conflicts, resolved_ok>>
envVars    == <<repo_dir, objects, diffs>>
lockVars   == <<threads, config>>
fetchVars  == <<remotes, fetched>>
restVars   == <<diff_stdout, fetchVars, interrupted>>

None == <<>>
Some(x) == <<x>>

-----------------------------------------------------------------------------
(* str primitives                                                          *)

NL == "\n"
Arrow == <<" ", "-", ">", " ">>

\* char::is_whitespace, restricted to the characters the model uses
IsWhitespace(c) == c \in {" ", "\t", "\r", "\n"}

\* str::starts_with
starts_with(s, p) == Len(p) <= Len(s) /\ SubSeq(s, 1, Len(p)) = p

\* position of the first occurrence of pat in s, 0 when there is none
Find(s, pat) ==
    LET hits == {i \in 1..(Len(s) - Len(pat) + 1) : SubSeq(s, i, i + Len(pat) - 1) = pat}
    IN IF hits = {} THEN 0 ELSE CHOOSE i \in hits : \A j \in hits : i <= j

\* str::contains
contains(s, pat) == Find(s, pat) # 0

\* str::split(pat).collect(): always at least one piece
RECURSIVE split(_, _)
split(s, pat) ==
    LET i == Find(s, pat)
    IN IF i = 0 THEN <<s>>
       ELSE <<SubSeq(s, 1, i - 1)>> \o split(SubSeq(s, i + Len(pat), Len(s)), pat)

\* str::trim_end
RECURSIVE trim_end(_)
trim_end(s) ==
    IF s # <<>> /\ IsWhitespace(s[Len(s)]) THEN trim_end(SubSeq(s, 1, Len(s) - 1)) ELSE s

\* str::trim_start
RECURSIVE trim_start(_)
trim_start(s) ==
    IF s # <<>> /\ IsWhitespace(s[1]) THEN trim_start(Tail(s)) ELSE s

\* str::trim
trim(s) == trim_start(trim_end(s))

\* line.chars().nth(n) with unwrap_or(' ')
nth_or_space(s, n) == IF n + 1 <= Len(s) THEN s[n + 1] ELSE " "

\* the elements of a sequence
Range(f) == {f[i] : i \in DOMAIN f}

\* a character that takes two bytes in UTF-8; every other character of the
\* model takes one
Wide == "é"
utf8_len(c) == IF c = Wide THEN 2 ELSE 1

\* str::len: the length in bytes
RECURSIVE str_len(_)
str_len(s) == IF s = <<>> THEN 0 ELSE utf8_len(s[1]) + str_len(Tail(s))

\* str::is_char_boundary: byte offset n is the start or the end of a character
is_char_boundary(s, n) == \E k \in 0..Len(s) : str_len(SubSeq(s, 1, k)) = n

\* the number of characters before byte offset n, a char boundary
chars_before(s, n) == CHOOSE k \in 0..Len(s) : str_len(SubSeq(s, 1, k)) = n

\* &line[n..] and &line[..n]: slices by byte offset.  Both panic where n is
\* not a char boundary; the callers test that with is_char_boundary first
slice_from(s, n) == SubSeq(s, chars_before(s, n) + 1, Len(s))
slice_to(s, n) == SubSeq(s, 1, chars_before(s, n))

\* slice.join(sep)
RECURSIVE join(_, _)
join(pieces, sep) ==
    IF pieces = <<>> THEN <<>>
    ELSE IF Len(pieces) = 1 THEN pieces[1]
    ELSE pieces[1] \o sep \o join(Tail(pieces), sep)

\* concatenation of a sequence of sequences
RECURSIVE Flatten(_)
Flatten(ss) == IF ss = <<>> THEN <<>> ELSE ss[1] \o Flatten(Tail(ss))

-----------------------------------------------------------------------------
(* get_status: staging.rs                                                  *)

\* the file_type chain of get_status
file_type(status) ==
    IF \E i \in 1..Len(status) : status[i] = "A" THEN "added"
    ELSE IF \E i \in 1..Len(status) : status[i] = "D" THEN "deleted"
    ELSE IF \E i \in 1..Len(status) : status[i] = "?" THEN "untracked"
    ELSE "modified"

\* faulty variant: the path taken from byte 2, keeping the separating space
StatusFilePathFromTwo(line) == slice_from(line, 2)

\* the text get_status takes for the path: &line[3..] on both branches (the
\* `continue` branch needs a line of at most two bytes, which was skipped above)
status_file_path(line) ==
    IF str_len(line) >= 3 /\ nth_or_space(line, 2) = " " THEN slice_from(line, 3)
    ELSE slice_from(line, 3)

\* get_status panics on this line: it is not skipped, and &line[..2] or
\* &line[3..] cuts a character in two
status_entry_panics(raw) ==
    LET cut(line) == /\ ~(line = <<>> \/ str_len(line) < 4)
                     /\ (~is_char_boundary(line, 2) \/ ~is_char_boundary(line, 3))
    IN cut(trim_end(raw))

\* the body of get_status's loop for one line: the entries it pushes
status_entry(raw) ==
    LET line == trim_end(raw)
    IN IF line = <<>> \/ str_len(line) < 4 THEN <<>>
       ELSE
         LET staged   == line[1] # " " /\ line[1] # "?"
             unstaged == line[2] # " " /\ line[2] # "?"
             status   == slice_to(line, 2)
             file_path == status_file_path(line)
         IN IF contains(file_path, Arrow)
            THEN LET parts == split(file_path, Arrow)
                 IN IF Len(parts) = 2
                    THEN << [path |-> parts[2], old_path |-> Some(parts[1]),
                             status |-> status, staged |-> staged,
                             unstaged |-> unstaged, type |-> "renamed"] >>
                    ELSE <<>>
            ELSE << [path |-> file_path, old_path |-> None,
                     status |-> status, staged |-> staged,
                     unstaged |-> unstaged, type |-> file_type(status)] >>

\* get_status applied to the status command's stdout
get_status(out) ==
    LET lines == split(out, <<NL>>)
    IN [files |-> Flatten([i \in 1..Len(lines) |-> status_entry(lines[i])])]

-----------------------------------------------------------------------------
(* get_conflicts: conflicts.rs                                             *)

\* faulty variant: the both-added test missing
IsConflictNoAA(status1, status2) ==
       status1 = "U"
    \/ status2 = "U"
    \/ (status1 = "D" /\ status2 = "D")
    \/ (status1 = "A" /\ status2 = "U")
    \/ (status1 = "U" /\ status2 = "A")
    \/ (status1 = "D" /\ status2 = "U")
    \/ (status1 = "U" /\ status2 = "D")

\* let is_conflict = ...
is_conflict(status1, status2) ==
       (status1 = "A" /\ status2 = "A")
    \/ status1 = "U"
    \/ status2 = "U"
    \/ (status1 = "D" /\ status2 = "D")
    \/ (status1 = "A" /\ status2 = "U")
    \/ (status1 = "U" /\ status2 = "A")
    \/ (status1 = "D" /\ status2 = "U")
    \/ (status1 = "U" /\ status2 = "D")

\* get_conflicts panics on this line: it is a conflict line and &line[3..]
\* cuts a character in two
conflict_entry_panics(raw) ==
    LET cut(line) == /\ str_len(line) >= 3
                     /\ is_conflict(nth_or_space(line, 0), nth_or_space(line, 1))
                     /\ ~is_char_boundary(line, 3)
    IN cut(trim(raw))

\* the body of get_conflicts's loop for one line: the entries it pushes
conflict_entry(raw) ==
    LET line == trim(raw)
    IN IF str_len(line) < 3 THEN <<>>
       ELSE
         LET status1 == nth_or_space(line, 0)
             status2 == nth_or_space(line, 1)
         IN IF is_conflict(status1, status2)
            THEN LET file_path == slice_from(line, 3)
                 IN IF contains(file_path, Arrow)
                    THEN LET parts == split(file_path, Arrow)
                         IN IF Len(parts) = 2
                            THEN << [path |-> parts[2], type |-> "both-modified"] >>
                            ELSE <<>>
                    ELSE << [path |-> file_path, type |-> "both-modified"] >>
            ELSE <<>>

\* get_conflicts applied to the status command's stdout
get_conflicts(out) ==
    LET lines == split(out, <<NL>>)
        conflicted_files == Flatten([i \in 1..Len(lines) |-> conflict_entry(lines[i])])
    IN [files |-> conflicted_files, has_conflicts |-> conflicted_files # <<>>]

-----------------------------------------------------------------------------
(* get_branch_info: repository.rs                                          *)

\* the characters of the model's names, in byte order
ByteOrder == <<"/", "0", "1", "Z", "a", "d", "e", "f", "i", "l", "m", "n", "o",
               "p", "r", "s", "t", "v", "z">>

Byte(c) == CHOOSE i \in 1..Len(ByteOrder) : ByteOrder[i] = c

\* str::cmp: bytewise lexicographic order; -1 Less, 0 Equal, 1 Greater
RECURSIVE cmp(_, _)
cmp(a, b) ==
    IF a = <<>> /\ b = <<>> THEN 0
    ELSE IF a = <<>> THEN -1
    ELSE IF b = <<>> THEN 1
    ELSE IF Byte(a[1]) < Byte(b[1]) THEN -1
    ELSE IF Byte(a[1]) > Byte(b[1]) THEN 1
    ELSE cmp(Tail(a), Tail(b))

main    == <<"m", "a", "i", "n">>
master  == <<"m", "a", "s", "t", "e", "r">>
develop == <<"d", "e", "v", "e", "l", "o", "p">>

\* fn rank inside the sort_by closure
rank(name) ==
    CASE name = main    -> 0
      [] name = master  -> 1
      [] name = develop -> 2
      [] OTHER          -> 10

\* faulty variant: names compared without their rank
BranchCmpNoRank(a, b) == cmp(a, b)

\* the sort_by closure
branch_cmp(a, b) ==
    LET ra == rank(a)
        rb == rank(b)
    IN IF ra = rb THEN cmp(a, b)
       ELSE IF ra < rb THEN -1 ELSE 1

\* slice::sort_by is a stable sort: insertion after the last element not greater
RECURSIVE insert_sorted(_, _)
insert_sorted(sorted, x) ==
    IF sorted = <<>> THEN <<x>>
    ELSE IF branch_cmp(x, sorted[1]) < 0 THEN <<x>> \o sorted
    ELSE <<sorted[1]>> \o insert_sorted(Tail(sorted), x)

RECURSIVE sort_by(_)
sort_by(v) ==
    IF v = <<>> THEN <<>>
    ELSE insert_sorted(sort_by(SubSeq(v, 1, Len(v) - 1)), v[Len(v)])

\* Vec::dedup: removes consecutive repeated elements
RECURSIVE dedup(_)
dedup(v) ==
    IF Len(v) < 2 THEN v
    ELSE IF v[1] = v[2] THEN dedup(Tail(v))
    ELSE <<v[1]>> \o dedup(Tail(v))

\* faulty variant: the enumeration order kept
SortedBranchesNoSort(names) == dedup(names)

\* branches after sort_by and dedup
sorted_branches(names) == dedup(sort_by(names))

\* str::hash writes the bytes of the string and then the byte 0xff
HashEnd == "0xff"
hash_str(s) == s \o <<HashEnd>>

\* what the loop over branch_oids writes to the hasher
RECURSIVE hasher_input(_)
hasher_input(branch_oids) ==
    IF branch_oids = <<>> THEN <<>>
    ELSE LET name == branch_oids[1][1]
             oid  == branch_oids[1][2]
         IN hash_str(name)
            \o (IF oid # None THEN hash_str(oid[1]) ELSE <<>>)
            \o hasher_input(Tail(branch_oids))

\* format!("{:x}", hasher.finish()): a function of the bytes written, kept
\* symbolic (SipHash is not computed)
refs_hash_of(branch_oids) == [siphash |-> hasher_input(branch_oids)]

\* the commits the branches of the model point to: a1 is a child of f0
TipA == <<"a", "1">>
TipF == <<"f", "0">>
BranchGraph == [c \in {TipA, TipF} |-> IF c = TipA THEN <<TipF>> ELSE <<>>]

\* Commit::time().seconds() of the two commits
SecondsPerDay == 86400
commit_time(c) == IF c = TipA THEN 100 * SecondsPerDay ELSE 0

\* the commits reachable from c through parent links, c included
RECURSIVE Reachable(_, _)
Reachable(g, c) ==
    {c} \cup UNION { Reachable(g, g[c][i]) : i \in 1..Len(g[c]) }

\* Repository::graph_descendant_of: a commit is not a descendant of itself
graph_descendant_of(g, commit, ancestor) ==
    commit # ancestor /\ ancestor \in Reachable(g, commit)

\* TimeDelta::num_days: i64 division, which truncates toward zero
num_days(seconds) ==
    IF seconds >= 0 THEN seconds \div SecondsPerDay
    ELSE -((-seconds) \div SecondsPerDay)

\* faulty variant: an unresolved branch reported as an ordinary one
IsUnbornNever(branch_obj) == FALSE

\* let is_unborn = branch_obj.is_none()
is_unborn_of(branch_obj) == branch_obj = None

\* the BranchMetadata of one branch; every resolved object peels to a commit
metadata_of(branch_obj, main_oid, t) ==
    LET is_unborn == is_unborn_of(branch_obj)
        triple ==
            IF branch_obj # None
            THEN LET oid == branch_obj[1]
                     is_merged == IF main_oid # None
                                  THEN graph_descendant_of(BranchGraph, main_oid[1], oid)
                                  ELSE FALSE
                     date_time == commit_time(oid)
                     is_stale == num_days(t - date_time) > 90
                 IN <<is_merged, Some([rfc3339 |-> date_time]), is_stale>>
            ELSE <<FALSE, None, FALSE>>
    IN [is_merged |-> triple[1],
        is_stale |-> triple[3],
        is_unborn |-> is_unborn,
        last_commit_date |-> triple[2]]

\* branches.iter().find(main or master), "main" when there is neither
main_branch_of(branches) ==
    LET hits == SelectSeq(branches, LAMBDA b : b = main \/ b = master)
    IN IF hits # <<>> THEN hits[1] ELSE main

\* revparse_single(..).ok()
revparse_ok(resolve, name) == IF name \in DOMAIN resolve THEN resolve[name] ELSE None

\* get_branch_info for the branches enumerated as `names`, revparse_single as
\* `resolve`, at the time `t`
get_branch_info(names, resolve, t) ==
    LET branches == sorted_branches(names)
        main_oid == revparse_ok(resolve, main_branch_of(branches))
        branch_oids == [i \in 1..Len(branches) |->
                           <<branches[i], revparse_ok(resolve, branches[i])>>]
        branch_metadata ==
            [b \in {branches[i] : i \in 1..Len(branches)} |->
                metadata_of(revparse_ok(resolve, b), main_oid, t)]
    IN [branches |-> branches,
        branch_metadata |-> branch_metadata,
        refs_hash |-> Some(refs_hash_of(branch_oids))]

-----------------------------------------------------------------------------
(* Inputs of the parsers: what `git status --porcelain` prints             *)

MaxStatusLines == 2

\* XY codes of ordinary entries
OrdinaryCodes ==
    { <<" ", "M">>, <<"M", " ">>, <<"M", "M">>, <<"A", " ">>, <<"A", "D">>,
      <<" ", "D">>, <<"D", " ">>, <<"?", "?">> }

\* XY codes of unmerged entries
UnmergedCodes ==
    { <<"D", "D">>, <<"A", "U">>, <<"U", "D">>, <<"U", "A">>,
      <<"D", "U">>, <<"A", "A">>, <<"U", "U">> }

\* "XY path" lines, and the rename lines "XY old -> new"
StatusLines ==
    { c \o <<" ">> \o <<"f">> : c \in OrdinaryCodes \cup UnmergedCodes }
    \cup { <<"U", "U", " ", "d", "/", "U", "x">>,
           <<" ", "M", " ", "U", "x">>,
           <<"R", " ", " ", "o">> \o Arrow \o <<"n">>,
           <<"R", "M", " ", "o">> \o Arrow \o <<"d", "/", "n">> }

\* the stdout text: every line ends with a newline
TextOf(lines) == Flatten([i \in 1..Len(lines) |-> lines[i] \o <<NL>>])

StatusTexts ==
    { TextOf(ls) : ls \in UNION { [1..n -> StatusLines] : n \in 0..MaxStatusLines } }

\* lines of a status text that is not the porcelain format: short lines, a
\* line without a space in third position, a rename with two separators, and
\* lines with a two-byte character among the first three, between lines that
\* are well formed
OddLines ==
    { <<>>, <<"M">>, <<"M", " ", "f">>,
      <<"M", "M", "x", "f">>,
      <<"R", " ", " ", "a">> \o Arrow \o <<"b">> \o Arrow \o <<"c">>,
      <<Wide, "M", " ", "f">>, <<"M", Wide, " ", "f">>, <<"M", "M", Wide, "f">>,
      <<"U", "U", Wide, "f">>, <<"U", Wide, " ", "f">>,
      <<" ", "M", " ", "f">>, <<"U", "U", " ", "g">>, <<" ", "U", " ", "f">> }

OddTexts ==
    { join(ls, <<NL>>) : ls \in UNION { [1..n -> OddLines] : n \in 1..(MaxStatusLines + 1) } }

NoStatus == <<>>
NotParsed == [op |-> "none"]
\* the thread of the command panicked: the command returns nothing
Panicked(op) == [op |-> op, panicked |-> TRUE]

InitStatusIdle == status_out = NoStatus /\ parsed = NotParsed

\* get_status (staging.rs) on the status text
GetStatusParse ==
    /\ parsed.op # "get_status"
    /\ parsed' = IF \E l \in Range(split(status_out, <<NL>>)) : status_entry_panics(l)
                 THEN Panicked("get_status")
                 ELSE [op |-> "get_status", out |-> get_status(status_out)]
    /\ UNCHANGED <<restVars, lockVars, status_out, branchVars, repoVars, envVars>>

\* get_conflicts (conflicts.rs) on the status text
GetConflictsParse ==
    /\ parsed.op # "get_conflicts"
    /\ parsed' = IF \E l \in Range(split(status_out, <<NL>>)) : conflict_entry_panics(l)
                 THEN Panicked("get_conflicts")
                 ELSE [op |-> "get_conflicts", out |-> get_conflicts(status_out)]
    /\ UNCHANGED <<restVars, lockVars, status_out, branchVars, repoVars, envVars>>

-----------------------------------------------------------------------------
(* Inputs of get_branch_info: the branches of the repository               *)

MaxBranches == 4

apple == <<"a", "p", "p", "l", "e">>
zeta  == <<"z", "e", "t", "a">>

BranchNames == {main, master, develop, apple, zeta}

\* Oid::to_string of the commit a branch resolves to (shortened hex)
OidOf(name) == IF name = main THEN TipA ELSE TipF

\* the times of the call: one second before and exactly 91 days after the
\* older commit
Nows == {91 * SecondsPerDay - 1, 91 * SecondsPerDay}

\* the sets of branches that do not resolve (unborn)
UnbornChoices == { {}, {apple, master}, BranchNames }

NoInfo == [called |-> FALSE]

InitBranchIdle ==
    /\ enumA = <<>> /\ enumB = <<>>
    /\ oids = [n \in BranchNames |-> None]
    /\ oidsB = oids
    /\ now = 0
    /\ commits = <<>>
    /\ revs = <<>>
    /\ info = NoInfo

\* two other enumeration orders of the same branches: the first two exchanged,
\* and the first moved to the end (together they generate every reordering)
SwapFirst(s) == IF Len(s) < 2 THEN s ELSE <<s[2], s[1]>> \o SubSeq(s, 3, Len(s))
Rotate(s) == IF s = <<>> THEN s ELSE Tail(s) \o <<s[1]>>

InitBranch ==
    /\ enumA \in UNION { [1..n -> BranchNames] : n \in 0..MaxBranches }
    /\ enumB \in {SwapFirst(enumA), Rotate(enumA)}
    /\ \E U \in UnbornChoices :
          oids = [n \in BranchNames |-> IF n \in U THEN None ELSE Some(OidOf(n))]
    /\ oidsB = oids
    /\ now \in Nows
    /\ commits = <<>> /\ revs = <<>>
    /\ info = NoInfo

\* get_branch_info on the repository, under either enumeration order
GetBranchInfo ==
    /\ ~info.called
    /\ info' = [called |-> TRUE,
                a |-> get_branch_info(enumA, oids, now),
                b |-> get_branch_info(enumB, oidsB, now)]
    /\ UNCHANGED <<restVars, lockVars, enumA, enumB, oids, oidsB, now, commits, revs,
                   statusVars, repoVars, envVars>>

-----------------------------------------------------------------------------
(* Inputs of refs_hash: two repositories with different branches           *)

\* two repositories: each branch exists or not, and resolves or not.  One of
\* the branch names reads as an object id (the text of TipF); RefOrder is the
\* order in which repo.branches() yields the branches that exist, RefTargets
\* what revparse_single gives for a branch (an error, or one of the commits)
InitRefs ==
    LET RefNames   == {develop, apple, TipF}
        RefOrder   == <<TipF, develop, apple>>
        RefTargets == {None, Some(TipA), Some(TipF)}
    IN /\ \E SA \in SUBSET RefNames, SB \in SUBSET RefNames :
             /\ enumA = SelectSeq(RefOrder, LAMBDA n : n \in SA)
             /\ enumB = SelectSeq(RefOrder, LAMBDA n : n \in SB)
             /\ oids \in [RefNames -> RefTargets]
             /\ oidsB \in [RefNames -> RefTargets]
             /\ \A n \in RefNames \ SA : oids[n] = None
             /\ \A n \in RefNames \ SB : oidsB[n] = None
       /\ now \in Nows
       /\ commits = <<>> /\ revs = <<>>
       /\ info = NoInfo

-----------------------------------------------------------------------------
(* The repository the commands act on: HEAD, index, working tree, .git     *)

NumSlots == 3

\* A file is NumSlots lines far enough apart that each changed line is a hunk
\* of its own.  "x" is the committed line, "y" an edited line.
Slots == 1..NumSlots
Base == [i \in Slots |-> "x"]
Contents == [Slots -> {"x", "y"}]
Ours == [i \in Slots |-> "o"]
Theirs == [i \in Slots |-> "t"]
Resolution == [i \in Slots |-> "r"]

FileF == <<"f">>
FileG == <<"d", "/", "g">>
Paths == {FileF, FileG}
DirD == <<"d">>

\* Path::parent of repo_path.join(path), relative to the repository root
parent(path) ==
    LET cuts == {i \in 1..Len(path) : path[i] = "/"}
    IN IF cuts = {} THEN <<>>
       ELSE SubSeq(path, 1, (CHOOSE i \in cuts : \A j \in cuts : j <= i) - 1)

\* the tree of HEAD: f is committed, d/g is not
HeadTree == [p \in Paths |-> IF p = FileF THEN Some(Base) ELSE None]

Absent == [kind |-> "absent"]
Merged(c) == [kind |-> "merged", content |-> c]
Unmerged(code) == [kind |-> "unmerged", code |-> code]

\* the index stages (1 base, 2 ours, 3 theirs) an unmerged code stands for
stages_of(code) ==
    CASE code = <<"D", "D">> -> {1}
      [] code = <<"A", "U">> -> {2}
      [] code = <<"U", "D">> -> {1, 2}
      [] code = <<"U", "A">> -> {3}
      [] code = <<"D", "U">> -> {1, 3}
      [] code = <<"A", "A">> -> {2, 3}
      [] code = <<"U", "U">> -> {1, 2, 3}

stage_blob(n) == CASE n = 1 -> Base [] n = 2 -> Ours [] n = 3 -> Theirs

Conflicted(idx) == {p \in Paths : idx[p].kind = "unmerged"}

\* stdout of `git status --porcelain`: tracked entries in path order, then the
\* untracked ones (an untracked file alone in its directory shows as "dir/")
status_line(wt, idx, p) ==
    LET e == idx[p]
        x == IF HeadTree[p] = None THEN (IF e.kind = "merged" THEN "A" ELSE " ")
             ELSE IF e.kind = "absent" THEN "D"
             ELSE IF e.content = HeadTree[p][1] THEN " " ELSE "M"
        y == IF e.kind = "absent" THEN " "
             ELSE IF wt[p] = None THEN "D"
             ELSE IF wt[p][1] = e.content THEN " " ELSE "M"
    IN IF e.kind = "unmerged" THEN << e.code \o <<" ">> \o p >>
       ELSE IF x = " " /\ y = " " THEN <<>>
       ELSE << <<x, y, " ">> \o p >>

untracked_line(wt, idx, p) ==
    IF idx[p].kind = "absent" /\ wt[p] # None
    THEN << <<"?", "?", " ">> \o (IF parent(p) = <<>> THEN p ELSE parent(p) \o <<"/">>) >>
    ELSE <<>>

git_status_porcelain(wt, idx) ==
    TextOf(status_line(wt, idx, FileG) \o status_line(wt, idx, FileF)
           \o untracked_line(wt, idx, FileG) \o untracked_line(wt, idx, FileF))

Digits == <<"0", "1", "2", "3", "4", "5", "6", "7", "8", "9">>
digit(n) == Digits[n + 1]
digit_value(c) == (CHOOSE i \in 1..Len(Digits) : Digits[i] = c) - 1

DiffGit == <<"d", "i", "f", "f", " ", "-", "-", "g", "i", "t", " ">>
DiffCc == <<"d", "i", "f", "f", " ", "-", "-", "c", "c", " ">>
MinusA == <<"-", "-", "-", " ", "a", "/">>
PlusB == <<"+", "+", "+", " ", "b", "/">>
PlusDevNull == <<"+", "+", "+", " ", "/", "d", "e", "v", "/", "n", "u", "l", "l">>
HunkOpen == <<"@", "@", " ", "-">>
HunkClose == <<" ", "@", "@">>
CombinedHunk == <<"@", "@", "@", " ", "-", "1", " ", "-", "1", " ", "+", "1", " ", "@", "@", "@">>

\* the hunk of slot i: header, removed line, added line
hunk_lines(i, old, new) ==
    << HunkOpen \o <<digit(i)>> \o <<" ", "+">> \o <<digit(i)>> \o HunkClose,
       <<"-", old>>, <<"+", new>> >>

\* stdout of `git diff -- path` (working tree against index), as lines
git_diff_lines(wt, idx, p) ==
    LET e == idx[p]
        header == << DiffGit \o <<"a", "/">> \o p \o <<" ", "b", "/">> \o p,
                     MinusA \o p, PlusB \o p >>
    IN IF e.kind = "absent" THEN <<>>
       ELSE IF e.kind = "unmerged"
       THEN IF wt[p] = None THEN <<>>
            ELSE << DiffCc \o p, MinusA \o p, PlusB \o p, CombinedHunk >>
                 \o [i \in Slots |-> <<"+", "+", wt[p][1][i]>>]
       ELSE IF wt[p] = None
       THEN << DiffGit \o <<"a", "/">> \o p \o <<" ", "b", "/">> \o p,
               MinusA \o p, PlusDevNull,
               HunkOpen \o <<"1", ",", digit(NumSlots), " ", "+", "0", ",", "0">> \o HunkClose >>
            \o [i \in Slots |-> <<"-", e.content[i]>>]
       ELSE IF wt[p][1] = e.content THEN <<>>
       ELSE header \o Flatten([i \in Slots |->
                IF wt[p][1][i] = e.content[i] THEN <<>>
                ELSE hunk_lines(i, e.content[i], wt[p][1][i])])

git_diff(wt, idx, p) == TextOf(git_diff_lines(wt, idx, p))

\* `git add path`: stages the working-tree file, or its deletion
git_add(wt, idx, p) ==
    IF wt[p] # None THEN [ok |-> TRUE, index |-> [idx EXCEPT ![p] = Merged(wt[p][1])]]
    ELSE IF idx[p].kind # "absent" THEN [ok |-> TRUE, index |-> [idx EXCEPT ![p] = Absent]]
    ELSE [ok |-> FALSE, index |-> idx]

\* `git reset HEAD -- path`
git_reset_path(idx, p) ==
    [idx EXCEPT ![p] = IF HeadTree[p] = None THEN Absent ELSE Merged(HeadTree[p][1])]

\* `git apply --cached file`: a patch needs its file header ("--- ", "+++ ")
\* before the first hunk; each hunk must match the index; all or nothing
git_apply_cached(patch, idx) ==
    LET lines == split(patch, <<NL>>)
        frags == {j \in 1..Len(lines) : starts_with(lines[j], <<"@", "@">>)}
        first == IF frags = {} THEN Len(lines) + 1
                 ELSE CHOOSE j \in frags : \A k \in frags : j <= k
        plus == {j \in 1..(first - 1) : starts_with(lines[j], <<"+", "+", "+", " ">>)}
        minus == {j \in 1..(first - 1) : starts_with(lines[j], MinusA)}
        failed == [ok |-> FALSE, index |-> idx]
    IN IF plus = {} \/ minus = {} THEN failed
       ELSE LET p == slice_from(lines[CHOOSE j \in minus : TRUE], Len(MinusA))
                deletion == \E j \in plus : lines[j] = PlusDevNull
                fits(j) == /\ starts_with(lines[j], HunkOpen)
                           /\ j + 2 <= Len(lines)
                           /\ idx[p].content[digit_value(lines[j][5])] = lines[j + 1][2]
                new == [i \in Slots |->
                          IF \E j \in frags : digit_value(lines[j][5]) = i
                          THEN lines[(CHOOSE j \in frags : digit_value(lines[j][5]) = i) + 2][2]
                          ELSE idx[p].content[i]]
            IN IF p \notin Paths \/ idx[p].kind # "merged" THEN failed
               ELSE IF deletion THEN [ok |-> TRUE, index |-> [idx EXCEPT ![p] = Absent]]
               ELSE IF \A j \in frags : fits(j)
                    THEN [ok |-> TRUE, index |-> [idx EXCEPT ![p] = Merged(new)]]
                    ELSE failed

-----------------------------------------------------------------------------
(* The commands: staging.rs and conflicts.rs                               *)

\* what can go wrong outside the program during one command: nothing, a
\* directory that cannot be created, a file that cannot be written, or the
\* mutating git subprocess exiting non-zero
Faults == {"none", "mkdir", "write", "git"}

NoCall == [op |-> "none", path |-> <<>>, hunks |-> None, content |-> <<>>,
           fault |-> "none", wrote |-> FALSE]
NoRet == [ok |-> TRUE, err |-> "", out |-> <<>>]
Ok(v) == [ok |-> TRUE, err |-> "", out |-> v]
Err(msg) == [ok |-> FALSE, err |-> msg, out |-> <<>>]

\* hunks.contains(&hunk_index)
hunks_contains(hunks, hunk_index) == \E i \in 1..Len(hunks) : hunks[i] = hunk_index

\* the loop of stage over the lines of the diff: the patch lines it keeps
RECURSIVE select_hunks(_, _, _, _)
select_hunks(lines, hunks, in_hunk, hunk_index) ==
    IF lines = <<>> THEN <<>>
    ELSE IF starts_with(lines[1], <<"@", "@">>)
    THEN LET now_in == hunks_contains(hunks, hunk_index)
         IN (IF now_in THEN <<lines[1]>> ELSE <<>>)
            \o select_hunks(Tail(lines), hunks, now_in, hunk_index + 1)
    ELSE (IF in_hunk THEN <<lines[1]>> ELSE <<>>)
         \o select_hunks(Tail(lines), hunks, in_hunk, hunk_index)

\* faulty variant: the patch written and applied even when it is empty
ShouldApplyAlways(patch_lines) == TRUE

\* if !patch_lines.is_empty()
should_apply(patch_lines) == patch_lines # <<>>

\* stage: the new index and scratch file, the result, whether the scratch was
\* written, and the patch the call built (None where it built none)
\* the call d repeats, without a fault, the call c that stopped after its
\* write step
Rerun(c, d) ==
    /\ interrupted # None
    /\ d.op = c.op /\ d.path = c.path /\ d.content = c.content /\ d.hunks = c.hunks
    /\ d.fault = "none"

\* the repository as a command finds it
Snapshot == [worktree |-> worktree, index |-> index, dirs |-> dirs,
             scratch |-> scratch, repo_dir |-> repo_dir]

stage(path, hunks, fault, wt, idx, scr) ==
    LET same(r) == [ret |-> r, index |-> idx, scratch |-> scr, wrote |-> FALSE, patch |-> None]
    IN IF hunks # None
       THEN IF hunks[1] # <<>>
            THEN LET diff_out == git_diff(wt, idx, path)
                     lines == split(diff_out, <<NL>>)
                     patch_lines == select_hunks(lines, hunks[1], FALSE, 0)
                 IN IF should_apply(patch_lines)
                    THEN LET patch_content == join(patch_lines, <<NL>>) \o <<NL>>
                             applied == IF fault = "git" THEN [ok |-> FALSE, index |-> idx]
                                        ELSE git_apply_cached(patch_content, idx)
                         IN IF fault = "write"
                            THEN [ret |-> Err("Failed to write patch"), index |-> idx,
                                  scratch |-> scr, wrote |-> FALSE,
                                  patch |-> Some(patch_content)]
                            ELSE IF ~applied.ok
                            THEN [ret |-> Err("Failed to apply patch"), index |-> idx,
                                  scratch |-> Some(patch_content), wrote |-> TRUE,
                                  patch |-> Some(patch_content)]
                            ELSE [ret |-> Ok(<<>>), index |-> applied.index,
                                  scratch |-> None, wrote |-> TRUE,
                                  patch |-> Some(patch_content)]
                    ELSE same(Ok(<<>>))
            ELSE same(Ok(<<>>))
       ELSE LET added == git_add(wt, idx, path)
            IN IF fault = "git" \/ ~added.ok THEN same(Err("Failed to stage file"))
               ELSE [ret |-> Ok(<<>>), index |-> added.index, scratch |-> scr,
                     wrote |-> FALSE, patch |-> None]

\* the hunk index lists of the requests: absent, empty, single, several, out of range
HunkRequests ==
    { None, Some(<<>>), Some(<<0>>), Some(<<1>>), Some(<<0, 2>>), Some(<<NumSlots>>) }

\* the faults of a command that writes no directory; outside a git repository
\* (there is no index then) every git subprocess fails
GitFaults == IF repo_dir = "repo" THEN Faults \ {"mkdir"} ELSE {"git"}

Stage ==
    \E path \in Paths, hunks \in HunkRequests, fault \in GitFaults :
        \E r \in {stage(path, hunks, fault, worktree, index, scratch)} :
           /\ index' = r.index
           /\ scratch' = r.scratch
           /\ ret' = r.ret
           /\ call' = [op |-> "stage", path |-> path, hunks |-> hunks,
                       content |-> <<>>, fault |-> fault, wrote |-> r.wrote,
                       patch |-> r.patch,
                       again |-> Rerun(call, [op |-> "stage", path |-> path, hunks |-> hunks,
                                              content |-> <<>>, fault |-> fault])]
           /\ interrupted' = IF r.wrote /\ ~r.ret.ok THEN Some(Snapshot) ELSE None
           /\ UNCHANGED <<diff_stdout, fetchVars, lockVars, worktree, dirs,
                          initial_conflicts, resolved_ok, statusVars, branchVars, envVars>>

\* unstage: git reset HEAD -- path
Unstage ==
    \E path \in Paths, fault \in GitFaults \ {"write"} :
        /\ index' = IF fault = "git" THEN index ELSE git_reset_path(index, path)
        /\ ret' = IF fault = "git" THEN Err("Failed to unstage file") ELSE Ok(<<>>)
        /\ call' = [op |-> "unstage", path |-> path, hunks |-> None,
                    content |-> <<>>, fault |-> fault, wrote |-> FALSE]
        /\ interrupted' = None
        /\ UNCHANGED <<diff_stdout, fetchVars, lockVars, worktree, scratch, dirs,
                       initial_conflicts, resolved_ok, statusVars, branchVars, envVars>>

\* get_status on the repository
GetStatus ==
    /\ call.op # "get_status"
    /\ ret' = IF repo_dir = "repo"
              THEN Ok(get_status(git_status_porcelain(worktree, index)))
              ELSE Err("Failed to get status")
    /\ call' = [NoCall EXCEPT !.op = "get_status"]
    /\ UNCHANGED <<restVars, lockVars, worktree, index, scratch, dirs, initial_conflicts,
                   resolved_ok,
                   statusVars, branchVars, envVars>>

\* get_conflicts on the repository
GetConflicts ==
    /\ call.op # "get_conflicts"
    /\ ret' = IF repo_dir = "repo"
              THEN Ok(get_conflicts(git_status_porcelain(worktree, index)))
              ELSE Err("Failed to get status")
    /\ call' = [NoCall EXCEPT !.op = "get_conflicts"]
    /\ UNCHANGED <<restVars, lockVars, worktree, index, scratch, dirs, initial_conflicts,
                   resolved_ok,
                   statusVars, branchVars, envVars>>

\* `git show :n:path`
git_show_stage(idx, path, n) ==
    IF idx[path].kind = "unmerged" /\ n \in stages_of(idx[path].code)
    THEN Ok(stage_blob(n)) ELSE Err("not at stage")

\* fs::read_to_string(full_path).unwrap_or_default()
\* faulty variant: the working-tree file is never read
ReadNothing(wt, path) == <<>>

read_or_default(wt, path) == IF wt[path] # None THEN wt[path][1] ELSE <<>>

get_conflict_file(path, wt, idx) ==
    LET base == IF git_show_stage(idx, path, 1).ok
                THEN git_show_stage(idx, path, 1).out ELSE <<>>
        mine == IF git_show_stage(idx, path, 2).ok
                THEN git_show_stage(idx, path, 2).out ELSE read_or_default(wt, path)
        theirs == IF git_show_stage(idx, path, 3).ok
                  THEN git_show_stage(idx, path, 3).out ELSE <<>>
        result == read_or_default(wt, path)
    IN Ok([base |-> base, mine |-> mine, theirs |-> theirs,
           result |-> result, file_path |-> path])

GetConflictFile ==
    \E path \in Paths :
        /\ call.op # "get_conflict_file" \/ call.path # path
        /\ ret' = get_conflict_file(path, worktree, index)
        /\ call' = [NoCall EXCEPT !.op = "get_conflict_file", !.path = path]
        /\ UNCHANGED <<restVars, lockVars, worktree, index, scratch, dirs,
                       initial_conflicts, resolved_ok,
                       statusVars, branchVars, envVars>>

\* faulty variant: the content not checked
RejectedOnlyEmptyPath(path, content) == path = <<>>

\* if params.path.is_empty() || params.content.is_empty()
request_rejected(path, content) == path = <<>> \/ content = <<>>

\* faulty variant: the content never reaches the file
WriteFileLost(wt, path, content) == wt

\* fs::write(&full_path, params.content)
write_file(wt, path, content) == [wt EXCEPT ![path] = Some(content)]

\* faulty variant: the resolved file is not staged
StagePathSkipped(wt, idx, path) == [ok |-> TRUE, index |-> idx]

\* run_git(&["add", &params.path]) of resolve_conflict
stage_path(wt, idx, path) == git_add(wt, idx, path)

\* resolve_conflict: result, and the working tree, directories, index and
\* repository path it leaves.  create_dir_all makes the missing directories,
\* the repository path included, and fails where that path is a file
resolve_conflict(path, content, fault, rd, wt, idx, ds) ==
    IF request_rejected(path, content)
    THEN [ret |-> Err("path and content required"),
          worktree |-> wt, index |-> idx, dirs |-> ds, repo_dir |-> rd]
    ELSE LET dir == parent(path)
             missing == (dir # <<>> /\ dir \notin ds) \/ rd \in {"missing", "file"}
             ds1 == IF dir = <<>> THEN ds ELSE ds \cup {dir}
             rd1 == IF rd = "missing" THEN "plain" ELSE rd
             wt1 == write_file(wt, path, content)
             added == stage_path(wt1, idx, path)
         IN IF missing /\ (fault = "mkdir" \/ rd = "file")
            THEN [ret |-> Err("Failed to create directory"),
                  worktree |-> wt, index |-> idx, dirs |-> ds, repo_dir |-> rd]
            ELSE IF fault = "write"
            THEN [ret |-> Err("Failed to write file"),
                  worktree |-> wt, index |-> idx, dirs |-> ds1, repo_dir |-> rd1]
            ELSE IF fault = "git" \/ rd1 # "repo" \/ ~added.ok
            THEN [ret |-> Err("Failed to stage file"),
                  worktree |-> wt1, index |-> idx, dirs |-> ds1, repo_dir |-> rd1]
            ELSE [ret |-> Ok(<<>>), worktree |-> wt1, index |-> added.index,
                  dirs |-> ds1, repo_dir |-> rd1]

ResolveConflict ==
    \E path \in Paths \cup {<<>>}, content \in {<<>>, Resolution}, fault \in Faults :
        \E r \in {resolve_conflict(path, content, fault, repo_dir, worktree, index, dirs)} :
           /\ repo_dir' = r.repo_dir
           /\ worktree' = r.worktree
           /\ index' = r.index
           /\ dirs' = r.dirs
           /\ ret' = r.ret
           /\ call' = [op |-> "resolve_conflict", path |-> path, hunks |-> None,
                       content |-> content, fault |-> fault, wrote |-> FALSE,
                       again |-> Rerun(call, [op |-> "resolve_conflict", path |-> path,
                                              hunks |-> None, content |-> content,
                                              fault |-> fault])]
           /\ resolved_ok' = IF r.ret.ok THEN resolved_ok \cup {path} ELSE resolved_ok
           /\ interrupted' = IF r.ret = Err("Failed to stage file") THEN Some(Snapshot)
                             ELSE None
           /\ UNCHANGED <<diff_stdout, fetchVars, lockVars, scratch, initial_conflicts,
                          objects, diffs, statusVars, branchVars>>

\* pull_repo, push_repo, stash_push, stash_pop, checkout_commit and
\* checkout_branch: the same check of the path, GitRepository::open, and the
\* operation, whose failure is reported inside a success result
GitOps == {"pull_repo", "push_repo", "stash_push", "stash_pop",
           "checkout_commit", "checkout_branch"}

git_op(rd, done) ==
    IF rd \in {"missing", "file"} THEN Err("Repository not found")
    ELSE IF rd # "repo" THEN Err("Failed to open repository")
    ELSE Ok([success |-> done])

GitOp ==
    \E op \in GitOps, done \in BOOLEAN :
        /\ call' = [op |-> op, path |-> <<>>, done |-> done]
        /\ ret' = git_op(repo_dir, done)
        /\ UNCHANGED <<restVars, lockVars, worktree, index, scratch, dirs,
                       initial_conflicts, resolved_ok,
                       statusVars, branchVars, envVars>>

-----------------------------------------------------------------------------
(* The commit a diff is asked for                                          *)

\* no commit looked at, and the repository path a git repository
NoObject == [resolves |-> FALSE, has_parent |-> FALSE, parent |-> None, current |-> None]
NoDiffs == [textual |-> None, structured |-> None]
InitEnvIdle == repo_dir = "repo" /\ objects = NoObject /\ diffs = NoDiffs

-----------------------------------------------------------------------------
(* parse_hunks and get_diff: diff.rs; get_file_diff: repository.rs         *)

IsDigit(c) == \E i \in 1..Len(Digits) : Digits[i] = c

\* the longest prefix of s made of digits: what \d+ matches at the start of s
RECURSIVE digits_prefix(_)
digits_prefix(s) ==
    IF s # <<>> /\ IsDigit(s[1]) THEN <<s[1]>> \o digits_prefix(Tail(s)) ELSE <<>>

\* str::parse::<i32> of a digit sequence
RECURSIVE parse_int(_)
parse_int(ds) ==
    IF ds = <<>> THEN 0
    ELSE 10 * parse_int(SubSeq(ds, 1, Len(ds) - 1)) + digit_value(ds[Len(ds)])

\* i32::MAX, in digits
I32Max == <<"2", "1", "4", "7", "4", "8", "3", "6", "4", "7">>

\* str::parse::<i32> succeeds on a digit sequence: the number is at most
\* i32::MAX, compared digit by digit once the leading zeros are dropped
RECURSIVE strip_zeros(_)
strip_zeros(ds) == IF Len(ds) > 1 /\ ds[1] = "0" THEN strip_zeros(Tail(ds)) ELSE ds

fits_i32(ds) ==
    LET at_most(a, b) ==
            \/ a = b
            \/ \E k \in 1..Len(a) : /\ SubSeq(a, 1, k - 1) = SubSeq(b, 1, k - 1)
                                    /\ digit_value(a[k]) < digit_value(b[k])
        small(a) == Len(a) < Len(I32Max) \/ (Len(a) = Len(I32Max) /\ at_most(a, I32Max))
    IN small(strip_zeros(ds))

\* format!("{}", n) of a number that is not negative
RECURSIVE to_string(_)
to_string(n) == IF n < 10 THEN <<digit(n)>> ELSE to_string(n \div 10) \o <<digit(n % 10)>>

\* hunk_re.captures(line) for ^@@ -(\d+)(?:,(\d+))? \+(\d+)(?:,(\d+))? @@ :
\* None, or the four groups, an unmatched optional group being None
hunk_re_captures(line) ==
    LET \* (\d+)(?:,(\d+))? at the start of a text: a is the first number, r
        \* what follows it, b the second number where r starts with a comma
        Matched(a, r, b) ==
            IF a = <<>> THEN None
            ELSE IF b = <<>> THEN Some([first |-> a, second |-> None, rest |-> r])
            ELSE Some([first |-> a, second |-> Some(b), rest |-> SubSeq(r, Len(b) + 2, Len(r))])
        Optional(a, r) ==
            Matched(a, r, IF r # <<>> /\ r[1] = "," THEN digits_prefix(Tail(r)) ELSE <<>>)
        First(s, a) == Optional(a, SubSeq(s, Len(a) + 1, Len(s)))
        Number(s) == First(s, digits_prefix(s))
        Groups(old, new) ==
            IF new # None /\ starts_with(new[1].rest, HunkClose)
            THEN Some(<<Some(old[1].first), old[1].second, Some(new[1].first), new[1].second>>)
            ELSE None
        New(old) ==
            Groups(old, IF old # None /\ starts_with(old[1].rest, <<" ", "+">>)
                        THEN Number(SubSeq(old[1].rest, 3, Len(old[1].rest))) ELSE None)
    IN New(IF starts_with(line, HunkOpen)
           THEN Number(SubSeq(line, Len(HunkOpen) + 1, Len(line))) ELSE None)

\* the loop of parse_hunks from line i (zero-based) on
RECURSIVE parse_loop(_, _, _, _)
parse_loop(lines, i, hunks, current_hunk) ==
    LET \* caps.get(k).and_then(|m| m.as_str().parse().ok()).unwrap_or(default):
        \* parse::<i32> fails on a number above i32::MAX
        num(caps, k, default) ==
            IF caps[1][k] = None \/ ~fits_i32(caps[1][k][1]) THEN default
            ELSE parse_int(caps[1][k][1])
        step(line, caps) ==
            IF starts_with(line, <<"@", "@">>)
            THEN parse_loop(lines, i + 1, hunks \o current_hunk,
                    IF caps # None
                    THEN Some([old_start |-> num(caps, 1, 0), old_count |-> num(caps, 2, 1),
                               new_start |-> num(caps, 3, 0), new_count |-> num(caps, 4, 1),
                               lines |-> <<line>>, line_start |-> i])
                    ELSE None)
            ELSE IF current_hunk # None
            THEN parse_loop(lines, i + 1, hunks,
                    Some([current_hunk[1] EXCEPT !.lines = Append(@, line)]))
            ELSE parse_loop(lines, i + 1, hunks, current_hunk)
    IN IF i >= Len(lines) THEN hunks \o current_hunk
       ELSE step(lines[i + 1], hunk_re_captures(lines[i + 1]))

parse_hunks(diff_out) == parse_loop(split(diff_out, <<NL>>), 0, <<>>, None)

\* str::lines: the pieces between newlines, without a last empty piece and
\* without a carriage return at the end of a piece
str_lines(content) ==
    LET kept(pieces) == IF pieces[Len(pieces)] = <<>>
                        THEN SubSeq(pieces, 1, Len(pieces) - 1) ELSE pieces
        chomp(piece) == IF piece # <<>> /\ piece[Len(piece)] = "\r"
                        THEN SubSeq(piece, 1, Len(piece) - 1) ELSE piece
        each(ls) == [i \in 1..Len(ls) |-> chomp(ls[i])]
    IN each(kept(split(content, <<NL>>)))

DevNull == <<"/", "d", "e", "v", "/", "n", "u", "l", "l">>
Minus3 == <<"-", "-", "-", " ">>
Plus3 == <<"+", "+", "+", " ">>
NoNewline == <<"\\", " ", "N", "o", " ", "n", "e", "w", "l", "i", "n", "e">>

\* the hunks xdiff finds between two versions of a file of a few lines, with
\* three lines of context: nothing when they are equal, else one hunk over the
\* whole file.  A line is [origin, content, eol]; eol says that it ends with
\* a newline
tree_diff(old, new) ==
    LET Lines(text) ==
            LET ls == str_lines(text)
            IN [i \in 1..Len(ls) |->
                   [content |-> ls[i],
                    eol |-> i < Len(ls) \/ text[Len(text)] = NL]]
        Shorter(o, n) == IF Len(o) < Len(n) THEN Len(o) ELSE Len(n)
        \* the lines of the common beginning, and of the common end after it
        Pre(o, n, m) == CHOOSE k \in 0..m :
                  /\ \A i \in 1..k : o[i] = n[i]
                  /\ k < m => o[k + 1] # n[k + 1]
        Post(o, n, rest) == CHOOSE k \in 0..rest :
                  /\ \A i \in 0..(k - 1) : o[Len(o) - i] = n[Len(n) - i]
                  /\ k < rest => o[Len(o) - k] # n[Len(n) - k]
        Mark(ls, origin) == [i \in 1..Len(ls) |->
                                [origin |-> origin, content |-> ls[i].content, eol |-> ls[i].eol]]
        Hunk(o, n, pre, post) ==
            << [old_start |-> IF Len(o) = 0 THEN 0 ELSE 1, old_lines |-> Len(o),
                new_start |-> IF Len(n) = 0 THEN 0 ELSE 1, new_lines |-> Len(n),
                body |-> Mark(SubSeq(o, 1, pre), " ")
                         \o Mark(SubSeq(o, pre + 1, Len(o) - post), "-")
                         \o Mark(SubSeq(n, pre + 1, Len(n) - post), "+")
                         \o Mark(SubSeq(n, Len(n) - post + 1, Len(n)), " ")] >>
        After(o, n, m, pre) == Hunk(o, n, pre, Post(o, n, m - pre))
        Between(o, n, m) == After(o, n, m, Pre(o, n, m))
        Diff(o, n) == Between(o, n, Shorter(o, n))
    IN IF old = new THEN <<>> ELSE Diff(Lines(old), Lines(new))

\* stdout of `git diff <parent> <ref> -- <path>`: a count of 1 is not printed
git_diff_trees(old, new, path) ==
    LET Range2(start, count) ==
            to_string(start) \o (IF count = 1 THEN <<>> ELSE <<",">> \o to_string(count))
        Body(h) == Flatten([i \in 1..Len(h.body) |->
                      <<h.body[i].origin>> \o h.body[i].content \o <<NL>>
                      \o (IF h.body[i].eol THEN <<>> ELSE NoNewline \o <<NL>>)])
        Hunk(h) == HunkOpen \o Range2(h.old_start, h.old_lines) \o <<" ", "+">>
                   \o Range2(h.new_start, h.new_lines) \o HunkClose \o <<NL>> \o Body(h)
        Out(hs) ==
            IF hs = <<>> THEN <<>>
            ELSE DiffGit \o <<"a", "/">> \o path \o <<" ", "b", "/">> \o path \o <<NL>>
                 \o MinusA \o path \o <<NL>> \o PlusB \o path \o <<NL>>
                 \o Flatten([i \in 1..Len(hs) |-> Hunk(hs[i])])
    IN Out(tree_diff(old, new))

\* generate_file_diff: the callbacks of diff.print over the same hunks (file
\* header 'F', hunk header 'H', lines '+' '-' ' ', anything else appended as it is)
generate_file_diff(old, new, file_path) ==
    LET header(h) == HunkOpen \o to_string(h.old_start) \o <<",">> \o to_string(h.old_lines)
                     \o <<" ", "+">> \o to_string(h.new_start) \o <<",">> \o to_string(h.new_lines)
                     \o HunkClose
        text(l) == <<l.origin>> \o l.content \o <<NL>>
                   \o (IF l.eol THEN <<>> ELSE <<NL>> \o NoNewline \o <<NL>>)
        printed(h, head) == head \o <<NL>> \o Flatten([j \in 1..Len(h.body) |-> text(h.body[j])])
        diff_text(hs) ==
            IF hs = <<>> THEN <<>>
            ELSE MinusA \o file_path \o <<NL>> \o PlusB \o file_path \o <<NL>>
                 \o Flatten([i \in 1..Len(hs) |-> printed(hs[i], header(hs[i]))])
        hunk(h, head) ==
            [old_start |-> h.old_start, old_count |-> h.old_lines,
             new_start |-> h.new_start, new_count |-> h.new_lines,
             lines |-> <<head>>
                       \o [j \in 1..Len(h.body) |->
                             <<h.body[j].origin>> \o trim_end(h.body[j].content)]]
        response(hs) ==
            Ok([diff |-> diff_text(hs),
                hunks |-> [i \in 1..Len(hs) |-> hunk(hs[i], header(hs[i]))],
                file_path |-> file_path])
    IN response(tree_diff(old, new))

\* faulty variant: the lines of a file counted as the pieces between newlines
SplitLines(content) == split(content, <<NL>>)

\* let lines: Vec<&str> = content.lines().collect()
blob_lines(content) == str_lines(content)

\* get_file_diff for a commit that exists; file_in_parent and file_in_current
\* are the blobs of the path (None: no such entry, or no parent commit)
get_file_diff(file_in_parent, file_in_current, file_path) ==
    LET Hunk(lines, sign, hunk_header) ==
            <<hunk_header>> \o [i \in 1..Len(lines) |-> <<sign>> \o lines[i]]
        Response(head, hunk_lines_, old_start, old_count, new_start, new_count) ==
            Ok([diff |-> head \o TextOf(hunk_lines_),
                hunks |-> << [old_start |-> old_start, old_count |-> old_count,
                              new_start |-> new_start, new_count |-> new_count,
                              lines |-> hunk_lines_] >>,
                file_path |-> file_path])
        Added(lines) ==
            Response(Minus3 \o DevNull \o <<NL>> \o PlusB \o file_path \o <<NL>>,
                     Hunk(lines, "+", HunkOpen \o <<"0", ",", "0", " ", "+", "1", ",">>
                                      \o to_string(Len(lines)) \o HunkClose),
                     0, 0, 1, Len(lines))
        Deleted(lines) ==
            Response(MinusA \o file_path \o <<NL>> \o Plus3 \o DevNull \o <<NL>>,
                     Hunk(lines, "-", HunkOpen \o <<"1", ",">> \o to_string(Len(lines))
                                      \o <<" ", "+", "0", ",", "0">> \o HunkClose),
                     1, Len(lines), 0, 0)
    IN CASE file_in_parent = None /\ file_in_current # None ->
              Added(blob_lines(file_in_current[1]))
         [] file_in_parent # None /\ file_in_current = None ->
              Deleted(blob_lines(file_in_parent[1]))
         [] file_in_parent # None /\ file_in_current # None ->
              generate_file_diff(file_in_parent[1], file_in_current[1], file_path)
         [] OTHER ->
              Ok([diff |-> <<>>, hunks |-> <<>>, file_path |-> file_path])

\* stdout of `git diff --cached -- path` (index against HEAD), as text
git_diff_cached(idx, p) ==
    LET e == idx[p]
        old == HeadTree[p]
        git_line == DiffGit \o <<"a", "/">> \o p \o <<" ", "b", "/">> \o p
        whole(sign, c) == [i \in Slots |-> <<sign, c[i]>>]
        count == to_string(NumSlots)
    IN TextOf(
         IF e.kind = "unmerged" THEN << <<"*", " ", "U", "n", "m", "e", "r", "g", "e", "d">> >>
         ELSE IF e.kind = "absent"
         THEN IF old = None THEN <<>>
              ELSE << git_line, MinusA \o p, PlusDevNull,
                      HunkOpen \o <<"1", ",">> \o count \o <<" ", "+", "0", ",", "0">> \o HunkClose >>
                   \o whole("-", old[1])
         ELSE IF old = None
         THEN << git_line, Minus3 \o DevNull, PlusB \o p,
                 HunkOpen \o <<"0", ",", "0", " ", "+", "1", ",">> \o count \o HunkClose >>
              \o whole("+", e.content)
         ELSE IF e.content = old[1] THEN <<>>
         ELSE << git_line, MinusA \o p, PlusB \o p >>
              \o Flatten([i \in Slots |->
                    IF e.content[i] = old[1][i] THEN <<>>
                    ELSE hunk_lines(i, old[1][i], e.content[i])]))

\* get_diff.  `rd` is what the repository path is ("repo": a git repository;
\* anything else makes every git subprocess fail); `obj` says whether the ref
\* resolves, whether that commit has a parent, and holds the blobs of FileF in
\* the parent and in the commit
get_diff(ref_, path, staged, rd, obj, wt, idx) ==
    LET git == rd = "repo"
        response(diff_out, hunks) ==
            Ok([diff |-> diff_out, hunks |-> hunks, file_path |-> path])
        with_hunks(diff_out) == response(diff_out, parse_hunks(diff_out))
        in_parent == IF path = FileF THEN obj.parent ELSE None
        in_current == IF path = FileF THEN obj.current ELSE None
        \* run_git(&["show", "<rev>:<path>"]).unwrap_or_default()
        show(found, blob) == IF found /\ blob # None THEN blob[1] ELSE <<>>
        added(lines) ==
            Minus3 \o DevNull \o <<NL>> \o PlusB \o path \o <<NL>>
            \o HunkOpen \o <<"0", ",", "0", " ", "+", "1", ",">>
            \o to_string(Len(lines)) \o HunkClose \o <<NL>>
            \o Flatten([i \in 1..Len(lines) |-> <<"+">> \o lines[i] \o <<NL>>])
        deleted(lines) ==
            MinusA \o path \o <<NL>> \o Plus3 \o DevNull \o <<NL>>
            \o HunkOpen \o <<"1", ",">> \o to_string(Len(lines))
            \o <<" ", "+", "0", ",", "0">> \o HunkClose \o <<NL>>
            \o Flatten([i \in 1..Len(lines) |-> <<"-">> \o lines[i] \o <<NL>>])
        \* the fallback for a ref without a parent: the file, each line after "+ "
        whole(lines) ==
            response(join([i \in 1..Len(lines) |-> <<"+", " ">> \o lines[i]], <<NL>>), <<>>)
    IN IF ref_ # None
       THEN IF git /\ obj.resolves /\ obj.has_parent       \* rev-parse <ref>^
            THEN with_hunks(IF in_parent = None /\ in_current # None
                        THEN added(split(show(TRUE, in_current), <<NL>>))
                        ELSE IF in_parent # None /\ in_current = None
                        THEN deleted(split(show(TRUE, in_parent), <<NL>>))
                        ELSE IF in_parent # None /\ in_current # None
                        THEN git_diff_trees(in_parent[1], in_current[1], path)
                        ELSE <<>>)
            ELSE whole(split(show(git /\ obj.resolves, in_current), <<NL>>))
       ELSE with_hunks(IF ~git THEN <<>>
                   ELSE IF staged = Some("true") THEN git_diff_cached(idx, path)
                   ELSE git_diff(wt, idx, path))

MaxFileLines == 2

\* the blobs: up to MaxFileLines lines "x" or "y", the last one with or
\* without its newline
FileTexts ==
    { Flatten([i \in 1..Len(ls) |-> <<ls[i]>> \o (IF i < Len(ls) \/ nl THEN <<NL>> ELSE <<>>)]) :
        ls \in UNION { [1..k -> {"x", "y"}] : k \in 0..MaxFileLines }, nl \in BOOLEAN }

\* a ref that names nothing, a commit without a parent, or a commit and its
\* first parent, with FileF in any of them or not
InitObjects ==
    /\ objects \in
         {NoObject}
         \cup { [resolves |-> TRUE, has_parent |-> FALSE, parent |-> None, current |-> c] :
                  c \in {None} \cup {Some(t) : t \in FileTexts} }
         \cup { [resolves |-> TRUE, has_parent |-> TRUE, parent |-> q, current |-> c] :
                  q \in {None} \cup {Some(t) : t \in FileTexts},
                  c \in {None} \cup {Some(t) : t \in FileTexts} }
    /\ repo_dir = "repo"
    /\ diffs = NoDiffs
    /\ worktree = [p \in Paths |-> IF p = FileF THEN Some(Base) ELSE None]
    /\ index = [p \in Paths |-> IF p = FileF THEN Merged(Base) ELSE Absent]
    /\ scratch = None /\ interrupted = None /\ dirs = {}
    /\ call = NoCall /\ ret = NoRet
    /\ initial_conflicts = {} /\ resolved_ok = {}

\* one call of get_diff
GetDiff ==
    \E ref_ \in {None, Some("c")}, path \in Paths, staged \in {None, Some("true")} :
        \E r \in {get_diff(ref_, path, staged, repo_dir, objects, worktree, index)} :
           /\ call' = [op |-> "get_diff", path |-> path, ref |-> ref_, staged |-> staged]
           /\ ret' = r
           /\ diffs' = [diffs EXCEPT !.textual = Some([path |-> path, ref |-> ref_, ret |-> r])]
           /\ UNCHANGED <<restVars, lockVars, worktree, index, scratch, dirs,
                          initial_conflicts, resolved_ok,
                          repo_dir, objects, statusVars, branchVars>>

\* one call of get_file_diff: find_commit fails for an id that names no commit
GetFileDiff ==
    \E path \in Paths :
        \E r \in { IF objects.resolves
                   THEN get_file_diff(IF path = FileF THEN objects.parent ELSE None,
                                      IF path = FileF THEN objects.current ELSE None, path)
                   ELSE Err("object not found") } :
           /\ call' = [op |-> "get_file_diff", path |-> path]
           /\ ret' = r
           /\ diffs' = [diffs EXCEPT !.structured = Some([path |-> path, ret |-> r])]
           /\ UNCHANGED <<restVars, lockVars, worktree, index, scratch, dirs,
                          initial_conflicts, resolved_ok,
                          repo_dir, objects, statusVars, branchVars>>

-----------------------------------------------------------------------------
(* get_commits and get_commits_local: repository.rs                        *)

MaxCommits == 4

\* faulty variant: the revision text taken as it is
RevisionSpecVerbatim(branch_name) == branch_name

\* let spec = if branch_name.is_empty() { "HEAD" } else { branch_name }
revision_spec(branch_name) == IF branch_name = "" THEN "HEAD" ELSE branch_name

\* faulty variant: Sort::TIME alone, every commit not yet shown may come next
WalkReadyAny(g, left) == left

\* Sort::TOPOLOGICAL: a commit may be shown once none of its children is still
\* to be shown
walk_ready(g, left) ==
    { c \in left : \A d \in left : \A i \in 1..Len(g[d].parents) : g[d].parents[i] # c }

\* the revwalk pushed with `start` and sorted TOPOLOGICAL | TIME: of the commits
\* that may be shown the most recent comes next; `tie` orders equal times
RECURSIVE revwalk_from(_, _, _)
revwalk_from(g, left, tie) ==
    IF left = {} THEN <<>>
    ELSE LET ready == walk_ready(g, left)
             before(c, d) == \/ g[c].time > g[d].time
                             \/ g[c].time = g[d].time /\ tie * c <= tie * d
             next == CHOOSE c \in ready : \A d \in ready : before(c, d)
         IN <<next>> \o revwalk_from(g, left \ {next}, tie)

\* Iterator::take(limit)
take(s, limit) == SubSeq(s, 1, IF limit < Len(s) THEN limit ELSE Len(s))

\* get_commits (local = FALSE) and get_commits_local (local = TRUE), which
\* differ in the branches they tag a commit with
get_commits(branch_name, limit, local, tie, g, resolve) ==
    LET spec == revision_spec(branch_name)
        target == resolve[spec]
        parents == [p \in DOMAIN g |-> g[p].parents]
        walk == revwalk_from(g, Reachable(parents, target.id), tie)
        sha_branches(c) ==
            { n \in DOMAIN resolve : n # "HEAD" /\ resolve[n].code = "ok" /\ resolve[n].id = c }
        record(c) == [sha |-> c,
                      parents |-> parents[c],
                      is_merge |-> Len(g[c].parents) > 1,
                      branches |-> IF local THEN {spec} ELSE sha_branches(c)]
        shown == take(walk, limit)
    IN IF target.code = "ok"
       THEN Ok([i \in 1..Len(shown) |-> record(shown[i])])
       ELSE IF target.code \in {"UnbornBranch", "NotFound"}
       THEN Ok(<<>>)
       ELSE Err(target.code)

\* the commits 1..MaxCommits, each with parents among the two commits made
\* before it; commit times that follow the parent order, run against it
\* (clock skew) or alternate between two values
CommitGraphs ==
    LET Ids == 1..MaxCommits
        ParentChoices(c) ==
            {<<>>} \cup { <<p>> : p \in {c - 1, c - 2} \cap Ids }
                   \cup (IF c > 2 THEN {<<c - 1, c - 2>>} ELSE {})
        Times == { [c \in Ids |-> c], [c \in Ids |-> MaxCommits + 1 - c],
                   [c \in Ids |-> c % 2] }
    IN { [c \in Ids |-> [parents |-> ps[c], time |-> t[c]]] :
            ps \in { f \in [Ids -> UNION {ParentChoices(c) : c \in Ids}] :
                        \A c \in Ids : f[c] \in ParentChoices(c) },
            t \in Times }

\* what revparse_single gives: HEAD is unborn or at a commit, main is at the
\* last commit, "gone" names nothing and "@{" is not a revision
Resolutions ==
    LET At(c) == [code |-> "ok", id |-> c]
        Fail(code) == [code |-> code, id |-> 0]
    IN { [r \in {"HEAD", "main", "gone", "@{", ""} |->
            CASE r = "HEAD" -> h
              [] r = "main" -> At(MaxCommits)
              [] r = "gone" -> Fail("NotFound")
              [] OTHER      -> Fail("InvalidSpec")] :
         h \in {Fail("UnbornBranch"), At(1), At(MaxCommits)} }

InitHistory ==
    /\ commits \in CommitGraphs
    /\ revs \in Resolutions
    /\ enumA = <<>> /\ enumB = <<>>
    /\ oids = [n \in BranchNames |-> None] /\ oidsB = oids
    /\ now = 0
    /\ info = NoInfo

\* one call of get_commits
GetCommits ==
    \E branch_name \in {"", "main", "gone", "@{"}, limit \in 0..(MaxCommits + 1),
       tie \in {1, -1} :
        /\ call = NoCall
        /\ call' = [op |-> "get_commits", rev |-> branch_name, limit |-> limit]
        /\ ret' = get_commits(branch_name, limit, FALSE, tie, commits, revs)
        /\ UNCHANGED <<restVars, lockVars, worktree, index, scratch, dirs,
                       initial_conflicts, resolved_ok,
                       statusVars, branchVars, envVars>>

\* one call of get_commits_local
GetCommitsLocal ==
    \E branch_name \in {"", "main", "gone", "@{"}, limit \in 0..(MaxCommits + 1),
       tie \in {1, -1} :
        /\ call = NoCall
        /\ call' = [op |-> "get_commits_local", rev |-> branch_name, limit |-> limit]
        /\ ret' = get_commits(branch_name, limit, TRUE, tie, commits, revs)
        /\ UNCHANGED <<restVars, lockVars, worktree, index, scratch, dirs,
                       initial_conflicts, resolved_ok,
                       statusVars, branchVars, envVars>>

-----------------------------------------------------------------------------
(* The commands as threads: State<Mutex<Config>>, lib.rs and every command  *)

\* two invocations, each naming a repository of its own
Threads == {1, 2}

\* the git subprocesses a command waits for, one after the other
Subprocesses ==
    [get_status |-> 1, get_conflicts |-> 1, stage |-> 2,
     resolve_conflict |-> 1, get_conflict_file |-> 3]
Commands == DOMAIN Subprocesses

Idle(last) == [pc |-> "idle", op |-> "none", step |-> 0, last |-> last]

InitFetchIdle == remotes = <<>> /\ fetched = <<>>

InitTextIdle == diff_stdout = <<>> /\ InitFetchIdle

InitLockIdle ==
    /\ threads = [t \in Threads |-> Idle("none")]
    /\ config = [holder |-> 0, poisoned |-> FALSE]

\* the frontend invokes a command: the thread enters the function
Invoke(t) ==
    /\ threads[t].pc = "idle"
    /\ \E op \in Commands :
          threads' = [threads EXCEPT ![t] = [pc |-> "lock", op |-> op, step |-> 0,
                                            last |-> "none"]]
    /\ UNCHANGED <<restVars, config, statusVars, branchVars, repoVars, envVars>>

\* faulty variant: the command goes on without the mutex
LockNoWait(t) ==
    /\ threads[t].pc = "lock"
    /\ ~config.poisoned
    /\ config' = [config EXCEPT !.holder = t]
    /\ threads' = [threads EXCEPT ![t].pc = "git", ![t].step = 1]
    /\ UNCHANGED <<restVars, statusVars, branchVars, repoVars, envVars>>

\* let config = config.lock().unwrap(): the thread waits until no thread holds
\* the mutex; the guard lives to the end of the function.  The first git
\* subprocess starts
Lock(t) ==
    /\ threads[t].pc = "lock"
    /\ config.holder = 0 /\ ~config.poisoned
    /\ config' = [config EXCEPT !.holder = t]
    /\ threads' = [threads EXCEPT ![t].pc = "git", ![t].step = 1]
    /\ UNCHANGED <<restVars, statusVars, branchVars, repoVars, envVars>>

\* lock() on a poisoned mutex returns Err and unwrap panics
LockPoisoned(t) ==
    /\ threads[t].pc = "lock"
    /\ config.holder = 0 /\ config.poisoned
    /\ threads' = [threads EXCEPT ![t] = Idle("panicked")]
    /\ UNCHANGED <<restVars, config, statusVars, branchVars, repoVars, envVars>>

\* a git subprocess exits and the command starts its next one
GitExit(t) ==
    /\ threads[t].pc = "git"
    /\ threads[t].step < Subprocesses[threads[t].op]
    /\ threads' = [threads EXCEPT ![t].step = @ + 1]
    /\ UNCHANGED <<restVars, config, statusVars, branchVars, repoVars, envVars>>

\* the last subprocess has exited: the command returns and the guard is dropped
Return(t) ==
    /\ threads[t].pc = "git"
    /\ threads[t].step = Subprocesses[threads[t].op]
    /\ threads' = [threads EXCEPT ![t] = Idle("returned")]
    /\ config' = [config EXCEPT !.holder = 0]
    /\ UNCHANGED <<restVars, statusVars, branchVars, repoVars, envVars>>

\* get_status and get_conflicts panic on some status texts: the guard is
\* dropped while the thread unwinds, which poisons the mutex
Panic(t) ==
    /\ threads[t].pc = "git"
    /\ threads[t].op \in {"get_status", "get_conflicts"}
    /\ threads' = [threads EXCEPT ![t] = Idle("panicked")]
    /\ config' = [holder |-> 0, poisoned |-> TRUE]
    /\ UNCHANGED <<restVars, statusVars, branchVars, repoVars, envVars>>

\* two stage calls with hunks on FileF of one repository, step by step
StageRequests == {<<0>>, <<1>>, <<NumSlots>>}

\* the frontend invokes stage with a list of hunk numbers
InvokeStage(t) ==
    /\ threads[t].pc = "idle"
    /\ \E hunks \in StageRequests :
          threads' = [threads EXCEPT ![t] = [pc |-> "lock", op |-> "stage", step |-> 0,
                                            last |-> "none", hunks |-> hunks,
                                            patch |-> None, applied |-> None]]
    /\ UNCHANGED <<restVars, config, statusVars, branchVars, repoVars, envVars>>

\* `git diff` has exited: the call builds its patch and, when there is one,
\* writes it to .git/tmp-patch-temp and starts `git apply --cached`
StageWrite(t) ==
    /\ threads[t].pc = "git" /\ threads[t].op = "stage" /\ threads[t].step = 1
    /\ \E patch_lines \in {select_hunks(split(git_diff(worktree, index, FileF), <<NL>>),
                                        threads[t].hunks, FALSE, 0)} :
          IF should_apply(patch_lines)
          THEN /\ scratch' = Some(join(patch_lines, <<NL>>) \o <<NL>>)
               /\ threads' = [threads EXCEPT ![t].step = 2, ![t].patch = scratch']
          ELSE /\ scratch' = scratch
               /\ threads' = [threads EXCEPT ![t].step = 2]
    /\ UNCHANGED <<restVars, config, worktree, index, dirs, call, ret, initial_conflicts,
                   resolved_ok, statusVars, branchVars, envVars>>

\* `git apply --cached` has read the scratch file and exited: on failure the
\* call returns the error, on success it removes the file and returns; a call
\* without a patch returns at once.  The guard is dropped
StageReturn(t) ==
    /\ threads[t].pc = "git" /\ threads[t].op = "stage" /\ threads[t].step = 2
    /\ \E applied \in { IF threads[t].patch = None \/ scratch = None
                        THEN [ok |-> threads[t].patch = None, index |-> index]
                        ELSE git_apply_cached(scratch[1], index) } :
          /\ index' = applied.index
          /\ scratch' = IF threads[t].patch # None /\ applied.ok THEN None ELSE scratch
          /\ threads' = [threads EXCEPT
                           ![t].pc = "idle", ![t].step = 0,
                           ![t].last = IF applied.ok THEN "returned" ELSE "failed",
                           ![t].applied = IF threads[t].patch = None THEN None ELSE scratch]
    /\ config' = [config EXCEPT !.holder = 0]
    /\ UNCHANGED <<restVars, worktree, dirs, call, ret, initial_conflicts, resolved_ok,
                   statusVars, branchVars, envVars>>

-----------------------------------------------------------------------------
(* Inputs of parse_hunks and of the loop of stage: diff texts               *)

MaxDiffLines == 4

\* the lines of a diff: a file header line, hunk headers without and with
\* counts, the header of a combined diff, a header whose number does not fit
\* an i32, and body lines
DiffLineChoices ==
    { MinusA \o <<"f">>,
      <<"@", "@", " ", "-", "1", " ", "+", "1", " ", "@", "@">>,
      <<"@", "@", " ", "-", "1", ",", "2", " ", "+", "3", ",", "0", " ", "@", "@", " ", "f", "n">>,
      CombinedHunk,
      <<"@", "@", " ", "-", "2", "1", "4", "7", "4", "8", "3", "6", "4", "8", " ", "+", "1", " ", "@", "@">>,
      <<"-", "x">>, <<"+", "y">> }

DiffTexts ==
    { TextOf(ls) : ls \in UNION { [1..n -> DiffLineChoices] : n \in 0..MaxDiffLines } }

\* parse_hunks (diff.rs) on the diff text
ParseHunks ==
    /\ call = NoCall
    /\ call' = [op |-> "parse_hunks", path |-> <<>>]
    /\ ret' = Ok(parse_hunks(diff_stdout))
    /\ UNCHANGED <<restVars, lockVars, worktree, index, scratch, dirs, initial_conflicts,
                   resolved_ok, statusVars, branchVars, envVars>>

\* the loop of stage (staging.rs) on the same text, for a list of hunk numbers
StageSelect ==
    /\ call = NoCall
    /\ \E hunks \in {<<0>>, <<1>>, <<0, 2>>} :
          /\ call' = [op |-> "select_hunks", path |-> <<>>, hunks |-> Some(hunks)]
          /\ ret' = Ok(select_hunks(split(diff_stdout, <<NL>>), hunks, FALSE, 0))
    /\ UNCHANGED <<restVars, lockVars, worktree, index, scratch, dirs, initial_conflicts,
                   resolved_ok, statusVars, branchVars, envVars>>

-----------------------------------------------------------------------------
(* fetch_all: repository.rs                                                *)

MaxRemotes == 3

\* what Remote::fetch gives for a remote: success, or the code of its error
FetchOutcomes == {"Ok", "Auth", "Net", "Certificate"}
\* a remote that repo.remotes() lists and repo.find_remote() rejects
InvalidSpec == "InvalidSpec"

\* faulty variant: no error is taken for an authentication error
NeverAuth(code) == FALSE

\* e.code() == git2::ErrorCode::Auth
is_auth(code) == code = "Auth"

\* the loop of fetch_all from remote i on: the result of the call and the
\* remotes it has called fetch on
RECURSIVE fetch_loop(_, _, _)
fetch_loop(rs, i, done) ==
    IF i > Len(rs) THEN [result |-> Ok(<<>>), fetched |-> done]
    ELSE IF rs[i] = InvalidSpec                       \* find_remote(..)?
    THEN [result |-> Err(InvalidSpec), fetched |-> done]
    ELSE IF rs[i] = "Ok" \/ is_auth(rs[i])            \* fetched, or `continue`
    THEN fetch_loop(rs, i + 1, Append(done, i))
    ELSE [result |-> Err(rs[i]), fetched |-> Append(done, i)]

fetch_all(rs) == fetch_loop(rs, 1, <<>>)

\* one call of fetch_all
FetchAll ==
    /\ call = NoCall
    /\ \E r \in {fetch_all(remotes)} :
          /\ call' = [op |-> "fetch_all", path |-> <<>>]
          /\ ret' = r.result
          /\ fetched' = r.fetched
    /\ UNCHANGED <<diff_stdout, remotes, interrupted, lockVars, worktree, index, scratch,
                   dirs, initial_conflicts, resolved_ok, statusVars, branchVars, envVars>>

-----------------------------------------------------------------------------
(* Specifications                                                          *)

InitRepoIdle ==
    /\ worktree = [p \in Paths |-> None]
    /\ index = [p \in Paths |-> Absent]
    /\ scratch = None /\ interrupted = None
    /\ dirs = {}
    /\ call = NoCall
    /\ ret = NoRet
    /\ initial_conflicts = {}
    /\ resolved_ok = {}

\* a repository with edited, deleted and untracked files, and no scratch file
InitStage ==
    /\ \E cf \in {None} \cup {Some(c) : c \in Contents}, cg \in {None, Some(Base)} :
          worktree = [p \in Paths |-> IF p = FileF THEN cf ELSE cg]
    /\ \E ef \in {Merged(Base), Unmerged(<<"U", "U">>)} :
          index = [p \in Paths |-> IF p = FileF THEN ef ELSE Absent]
    /\ dirs = IF worktree[FileG] # None THEN {DirD} ELSE {}
    /\ scratch = None /\ interrupted = None
    /\ call = NoCall
    /\ ret = NoRet
    /\ initial_conflicts = Conflicted(index)
    /\ resolved_ok = {}

\* a repository after a merge: any of its paths may be unmerged
InitConflict ==
    /\ \E cf \in {None, Some(Base), Some([i \in Slots |-> "y"])}, cg \in {None, Some(Base)} :
          worktree = [p \in Paths |-> IF p = FileF THEN cf ELSE cg]
    /\ \E ef \in {Merged(Base)} \cup
                 {Unmerged(c) : c \in {<<"U", "U">>, <<"U", "D">>, <<"D", "U">>, <<"D", "D">>}},
          eg \in {Absent} \cup
                 {Unmerged(c) : c \in {<<"A", "A">>, <<"A", "U">>, <<"U", "A">>}} :
          index = [p \in Paths |-> IF p = FileF THEN ef ELSE eg]
    /\ dirs \in (IF worktree[FileG] # None THEN {{DirD}} ELSE {{}, {DirD}})
    /\ scratch = None /\ interrupted = None
    /\ call = NoCall
    /\ ret = NoRet
    /\ initial_conflicts = Conflicted(index)
    /\ resolved_ok = {}

\* the parsers on every status text
InitStatus ==
    /\ status_out \in StatusTexts
    /\ parsed = NotParsed
    /\ InitBranchIdle
    /\ InitRepoIdle
    /\ InitEnvIdle /\ InitLockIdle /\ InitTextIdle

NextStatus == GetStatusParse \/ GetConflictsParse
SpecStatus == InitStatus /\ [][NextStatus]_vars

\* the parsers on status texts that are not the porcelain format
InitStatusBytes ==
    /\ status_out \in OddTexts
    /\ parsed = NotParsed
    /\ InitBranchIdle
    /\ InitRepoIdle
    /\ InitEnvIdle /\ InitLockIdle /\ InitTextIdle
SpecStatusBytes == InitStatusBytes /\ [][NextStatus]_vars

\* get_branch_info on every small set of branches
InitBranches == InitBranch /\ InitStatusIdle /\ InitRepoIdle /\ InitEnvIdle /\ InitLockIdle
    /\ InitTextIdle
NextBranches == GetBranchInfo
SpecBranches == InitBranches /\ [][NextBranches]_vars

\* get_branch_info on two repositories
InitRefsHash == InitRefs /\ InitStatusIdle /\ InitRepoIdle /\ InitEnvIdle /\ InitLockIdle
    /\ InitTextIdle
NextRefsHash == GetBranchInfo
SpecRefsHash == InitRefsHash /\ [][NextRefsHash]_vars

\* the history walker on every small commit graph
InitCommits == InitHistory /\ InitStatusIdle /\ InitRepoIdle /\ InitEnvIdle /\ InitLockIdle
    /\ InitTextIdle
NextCommits == GetCommits \/ GetCommitsLocal
SpecCommits == InitCommits /\ [][NextCommits]_vars

\* the two diff paths on one commit
InitDiff == InitObjects /\ InitStatusIdle /\ InitBranchIdle /\ InitLockIdle /\ InitTextIdle
NextDiff == GetDiff \/ GetFileDiff
SpecDiff == InitDiff /\ [][NextDiff]_vars

\* every command on a repository path that is missing or is a file
InitMissing ==
    /\ repo_dir \in {"missing", "file"}
    /\ objects = NoObject /\ diffs = NoDiffs
    /\ InitRepoIdle /\ InitStatusIdle /\ InitBranchIdle /\ InitLockIdle /\ InitTextIdle
NextMissing ==
    \/ GetDiff \/ GetConflictFile \/ GetConflicts \/ GetStatus
    \/ Stage \/ Unstage \/ ResolveConflict \/ GitOp
SpecMissing == InitMissing /\ [][NextMissing]_vars

\* two commands invoked concurrently
InitThreads == InitLockIdle /\ InitTextIdle /\ InitStatusIdle /\ InitBranchIdle
    /\ InitRepoIdle /\ InitEnvIdle
NextThreads ==
    \E t \in Threads :
        Invoke(t) \/ Lock(t) \/ LockPoisoned(t) \/ GitExit(t) \/ Return(t) \/ Panic(t)
SpecThreads == InitThreads /\ [][NextThreads]_vars

\* two threads that call stage with hunks on a repository with unstaged
\* changes in every line of FileF
InitStageThreads ==
    /\ InitLockIdle /\ InitTextIdle /\ InitStatusIdle /\ InitBranchIdle /\ InitEnvIdle
    /\ worktree = [p \in Paths |-> IF p = FileF THEN Some([i \in Slots |-> "y"]) ELSE None]
    /\ index = [p \in Paths |-> IF p = FileF THEN Merged(Base) ELSE Absent]
    /\ scratch = None /\ interrupted = None
    /\ dirs = {} /\ call = NoCall /\ ret = NoRet
    /\ initial_conflicts = {} /\ resolved_ok = {}
NextStageThreads ==
    \E t \in Threads : InvokeStage(t) \/ Lock(t) \/ StageWrite(t) \/ StageReturn(t)
SpecStageThreads == InitStageThreads /\ [][NextStageThreads]_vars

\* the hunk parser and the loop of stage on every small diff text
InitHunkText ==
    /\ diff_stdout \in DiffTexts
    /\ InitStatusIdle /\ InitBranchIdle /\ InitRepoIdle /\ InitEnvIdle /\ InitLockIdle
    /\ InitFetchIdle
NextHunks == ParseHunks \/ StageSelect
SpecHunks == InitHunkText /\ [][NextHunks]_vars

\* fetch_all on every small list of remotes
InitRemotes ==
    /\ remotes \in UNION { [1..n -> FetchOutcomes \cup {InvalidSpec}] : n \in 0..MaxRemotes }
    /\ fetched = <<>>
    /\ diff_stdout = <<>>
    /\ InitStatusIdle /\ InitBranchIdle /\ InitRepoIdle /\ InitEnvIdle /\ InitLockIdle
SpecFetch == InitRemotes /\ [][FetchAll]_vars

\* the staging commands on one repository
InitStaging == InitStage /\ InitStatusIdle /\ InitBranchIdle /\ InitEnvIdle /\ InitLockIdle
    /\ InitTextIdle
NextStaging == Stage \/ Unstage \/ GetStatus
SpecStaging == InitStaging /\ [][NextStaging]_vars

\* the conflict commands on one repository
InitConflicts == InitConflict /\ InitStatusIdle /\ InitBranchIdle /\ InitEnvIdle
    /\ InitLockIdle /\ InitTextIdle
NextConflicts == GetConflicts \/ GetConflictFile \/ ResolveConflict
SpecConflicts == InitConflicts /\ [][NextConflicts]_vars

\* resolve_conflict and stage, each run again after it has stopped
InitRecovery ==
    /\ InitConflicts
    /\ worktree[FileF] # None /\ worktree[FileG] = None /\ dirs = {}
    /\ index[FileF] \in {Merged(Base), Unmerged(<<"U", "U">>)}
    /\ index[FileG] \in {Absent, Unmerged(<<"A", "A">>)}
\* the calls on FileF that run to the end or stop at the git subprocess
RecoveryCall(c) ==
    /\ c.path = FileF /\ c.fault \in {"none", "git"}
    /\ IF c.op = "stage" THEN c.hunks # None /\ c.hunks # Some(<<>>) ELSE c.content # <<>>
NextRecovery == (ResolveConflict /\ RecoveryCall(call')) \/ (Stage /\ RecoveryCall(call'))
SpecRecovery == InitRecovery /\ [][NextRecovery]_vars

\* every command on one repository: the union of the two specifications above
\* (a much larger state space; the properties below name the specification
\* they are checked under)
Init == InitStaging \/ InitConflicts
Next == NextStaging \/ NextConflicts
Spec == Init /\ [][Next]_vars

-----------------------------------------------------------------------------
(* Properties of hunk-level staging (checked under SpecStaging)            *)

IsStageWithHunks(c) == c.op = "stage" /\ c.hunks # None

\* the number of hunks of the path's unstaged diff: its "@@" lines
NumHunks(wt, idx, p) ==
    Cardinality({j \in 1..Len(git_diff_lines(wt, idx, p)) :
                    starts_with(git_diff_lines(wt, idx, p)[j], <<"@", "@">>)})

\* the slots where the working-tree file differs from the index, in order:
\* hunk number j (from 0) of the diff is the change of slot ChangedSlots[j + 1]
ChangedSlots(wt, idx, p) ==
    LET diff(i) == wt[p][1][i] # idx[p].content[i]
        RECURSIVE upto(_)
        upto(n) == IF n = 0 THEN <<>>
                   ELSE upto(n - 1) \o (IF diff(n) THEN <<n>> ELSE <<>>)
    IN upto(NumSlots)

\* the index content once exactly the hunks numbered in S are staged
StagedSelection(wt, idx, p, S) ==
    LET cs == ChangedSlots(wt, idx, p)
    IN [i \in Slots |->
          IF \E j \in S : j + 1 <= Len(cs) /\ cs[j + 1] = i
          THEN wt[p][1][i] ELSE idx[p].content[i]]

HunkSet(c) == {c.hunks[1][i] : i \in 1..Len(c.hunks[1])}

\* C1: a stage call for a path with a non-empty hunk index set S, all of them
\* hunks of the path's unstaged diff, and nothing failing outside the program,
\* succeeds, and afterwards the index holds exactly the changes of the hunks in
\* S while the other hunks are still unstaged.
C1_StageSelectedHunks ==
    [][ ( /\ IsStageWithHunks(call')
          /\ call'.fault = "none"
          /\ HunkSet(call') # {}
          /\ index[call'.path].kind = "merged"
          /\ worktree[call'.path] # None
          /\ \A j \in HunkSet(call') : j < Len(ChangedSlots(worktree, index, call'.path)) )
        => ( /\ ret'.ok
             /\ index' = [index EXCEPT ![call'.path] =
                            Merged(StagedSelection(worktree, index, call'.path, HunkSet(call')))]
             /\ worktree' = worktree ) ]_vars

\* C2: whenever a stage call with a hunk index set has written the scratch
\* patch file and returned, the scratch file no longer exists.
C2_ScratchRemoved ==
    (IsStageWithHunks(call) /\ call.wrote) => scratch = None

\* C3: a stage call with an empty hunk index list, or with a list that selects
\* no hunk of the path's unstaged diff, returns success and changes neither the
\* index, the working tree nor the control directory (no scratch file).
C3_EmptySelectionNoOp ==
    [][ ( /\ IsStageWithHunks(call')
          /\ \A j \in HunkSet(call') : j >= NumHunks(worktree, index, call'.path) )
        => ( /\ ret'.ok
             /\ ~call'.wrote
             /\ UNCHANGED <<diff_stdout, fetchVars, lockVars, index, worktree, scratch, dirs>> ) ]_vars

C3_Witness ==
    /\ IsStageWithHunks(call) /\ call.hunks = Some(<<1>>) /\ call.path = FileF
    /\ index[FileF].kind = "merged" /\ worktree[FileF] # None
    /\ Len(ChangedSlots(worktree, index, FileF)) = 1
    /\ ret.ok /\ ~call.wrote /\ scratch = None

-----------------------------------------------------------------------------
(* Properties of conflict resolution (checked under SpecConflicts)         *)

\* C4: resolve_conflict with an empty path or an empty content fails, and it
\* creates no directory, writes no file and stages nothing.
C4_EmptyRequestRejected ==
    [][ ( /\ call'.op = "resolve_conflict"
          /\ (call'.path = <<>> \/ call'.content = <<>>) )
        => ( /\ ~ret'.ok
             /\ UNCHANGED <<diff_stdout, fetchVars, lockVars, worktree, index, dirs, scratch>> ) ]_vars

C4_Witness ==
    /\ call.op = "resolve_conflict" /\ call.path = FileG /\ call.content = <<>>
    /\ call.fault = "none" /\ ~ret.ok
    /\ worktree[FileG] = None /\ DirD \notin dirs /\ index[FileG].kind = "unmerged"

ListedConflicts(wt, idx) ==
    LET files == get_conflicts(git_status_porcelain(wt, idx)).files
    IN {files[i].path : i \in 1..Len(files)}

\* C5: after resolve_conflict has returned success for a non-empty path and
\* content, the working-tree file holds exactly that content, the path is
\* staged with it, and get_conflicts no longer lists the path.
C5_ResolvedIsWrittenAndStaged ==
    (call.op = "resolve_conflict" /\ ret.ok)
    => ( /\ call.path # <<>> /\ call.content # <<>>
         /\ worktree[call.path] = Some(call.content)
         /\ index[call.path] = Merged(call.content)
         /\ call.path \notin ListedConflicts(worktree, index) )

C5_Witness ==
    /\ call.op = "resolve_conflict" /\ ret.ok
    /\ call.path \in initial_conflicts
    /\ worktree[call.path] = Some(Resolution)
    /\ Conflicted(index) # {}

\* C6: from a repository with a non-empty set K of conflicted paths, under
\* get_conflicts, get_conflict_file and resolve_conflict calls: get_conflicts
\* reports has_conflicts exactly while some path of K has not been resolved
\* successfully, with an empty list once all are; and get_conflict_file never
\* changes which paths are conflicted.
C6_ConflictLifecycle ==
    /\ [] ( (initial_conflicts # {} /\ call.op = "get_conflicts")
            => ( /\ ret.out.has_conflicts <=> ~(initial_conflicts \subseteq resolved_ok)
                 /\ (initial_conflicts \subseteq resolved_ok) => ret.out.files = <<>> ) )
    /\ [][ call'.op = "get_conflict_file"
           => (Conflicted(index') = Conflicted(index) /\ index' = index
               /\ worktree' = worktree) ]_vars

C6_Witness ==
    /\ Cardinality(initial_conflicts) = 2
    /\ initial_conflicts \subseteq resolved_ok
    /\ call.op = "get_conflicts"
    /\ ~ret.out.has_conflicts /\ ret.out.files = <<>>

-----------------------------------------------------------------------------
(* Properties of the status parsers (checked under SpecStatus)             *)

\* the lines of the status text (each ended by a newline)
InputLines ==
    LET pieces == split(status_out, <<NL>>)
    IN SubSeq(pieces, 1, Len(pieces) - 1)

\* the path part of a status line: after the two status characters and a space
PathPart(line) == SubSeq(line, 4, Len(line))

ClaimedConflict(x, y) ==
    (x = "A" /\ y = "A") \/ x = "U" \/ y = "U" \/ (x = "D" /\ y = "D")

\* C7: get_conflicts lists the path of a status line with code XY if and only
\* if X=A and Y=A, or X=U, or Y=U, or X=D and Y=D; every other line yields no
\* entry.
C7_ConflictCodes ==
    parsed.op = "get_conflicts"
    => LET lines == InputLines
           expected == Flatten([i \in 1..Len(lines) |->
                          IF ClaimedConflict(lines[i][1], lines[i][2])
                          THEN <<PathPart(lines[i])>> ELSE <<>>])
           files == parsed.out.files
       IN /\ [i \in 1..Len(files) |-> files[i].path] = expected
          /\ parsed.out.has_conflicts <=> expected # <<>>

C7_Witness ==
    /\ parsed.op = "get_conflicts"
    /\ InputLines = << <<"A", "A", " ", "f">>, <<"M", " ", " ", "f">> >>
    /\ Len(parsed.out.files) = 1

\* a path part of the form old -> new, with a single arrow
IsRename(pp) ==
    /\ contains(pp, Arrow)
    /\ ~contains(SubSeq(pp, Find(pp, Arrow) + 1, Len(pp)), Arrow)
OldOf(pp) == SubSeq(pp, 1, Find(pp, Arrow) - 1)
NewOf(pp) == SubSeq(pp, Find(pp, Arrow) + Len(Arrow), Len(pp))

\* C8: get_status yields for each status line one entry: for a path part
\* 'old -> new', path=new, old_path=old, the two-character code and kind
\* renamed; otherwise the path part itself, no old_path and a kind among
\* added, deleted, untracked, modified.
C8_StatusEntries ==
    parsed.op = "get_status"
    => LET lines == InputLines
           files == parsed.out.files
       IN /\ Len(files) = Len(lines)
          /\ \A i \in 1..Len(lines) :
                LET pp == PathPart(lines[i])
                IN /\ files[i].status = SubSeq(lines[i], 1, 2)
                   /\ IsRename(pp) =>
                         /\ files[i].path = NewOf(pp)
                         /\ files[i].old_path = Some(OldOf(pp))
                         /\ files[i].type = "renamed"
                   /\ ~contains(pp, Arrow) =>
                         /\ files[i].path = pp
                         /\ files[i].old_path = None
                         /\ files[i].type \in {"added", "deleted", "untracked", "modified"}

C8_Witness ==
    /\ parsed.op = "get_status"
    /\ InputLines = << <<"R", " ", " ", "o">> \o Arrow \o <<"n">>, <<"U", "U", " ", "f">> >>
    /\ Len(parsed.out.files) = 2
    /\ parsed.out.files[1].type = "renamed"

-----------------------------------------------------------------------------
(* Properties of get_branch_info (checked under SpecBranches)              *)

ClaimedRank(name) ==
    IF name = main THEN 0 ELSE IF name = master THEN 1
    ELSE IF name = develop THEN 2 ELSE 10

\* a < b lexicographically: a proper prefix, or smaller at the first difference
LexLess(a, b) ==
    \/ Len(a) < Len(b) /\ SubSeq(b, 1, Len(a)) = a
    \/ \E k \in 1..Len(a) :
          /\ k <= Len(b)
          /\ SubSeq(a, 1, k - 1) = SubSeq(b, 1, k - 1)
          /\ Byte(a[k]) < Byte(b[k])


\* C9: the branches list holds every enumerated name once, sorted by rank
\* (main 0, master 1, develop 2, others 10) and lexicographically within a rank.
C9_BranchesSortedDeduplicated ==
    info.called
    => LET b == info.a.branches
       IN /\ Range(b) = Range(enumA)
          /\ \A i, j \in 1..Len(b) :
                i < j => \/ ClaimedRank(b[i]) < ClaimedRank(b[j])
                         \/ /\ ClaimedRank(b[i]) = ClaimedRank(b[j])
                            /\ LexLess(b[i], b[j])

C9_Witness ==
    /\ info.called
    /\ enumA = <<zeta, main, apple, master>>
    /\ info.a.branches = <<main, master, apple, zeta>>

\* the (branch name, resolved id or absent) pairs of an enumeration
PairsOf(names) == {<<names[i], oids[names[i]]>> : i \in 1..Len(names)}

\* C10: two enumerations of the same (name, id) pairs, in whatever order,
\* give the same refs_hash.
C10_RefsHashOrderIndependent ==
    (info.called /\ PairsOf(enumA) = PairsOf(enumB))
    => info.a.refs_hash = info.b.refs_hash

C10_Witness ==
    /\ info.called
    /\ enumA = <<zeta, main, apple>> /\ enumB = <<main, zeta, apple>>
    /\ oids[apple] = None /\ oids[main] # None
    /\ info.a.refs_hash = info.b.refs_hash

\* C12: every listed branch has a metadata entry; a branch that does not
\* resolve is reported is_unborn, and an unborn branch is neither merged nor
\* stale and has no last commit date.
C12_UnbornMetadata ==
    info.called
    => LET r == info.a
       IN /\ DOMAIN r.branch_metadata = Range(r.branches)
          /\ \A b \in Range(r.branches) :
                LET md == r.branch_metadata[b]
                IN /\ oids[b] = None => md.is_unborn
                   /\ md.is_unborn => /\ ~md.is_merged
                                      /\ md.last_commit_date = None
                                      /\ ~md.is_stale

C12_Witness ==
    /\ info.called
    /\ enumA = <<apple, develop, main>>
    /\ oids[apple] = None /\ oids[main] # None
    /\ info.a.branch_metadata[apple].is_unborn
    /\ info.a.branch_metadata[develop].is_merged
    /\ info.a.branch_metadata[develop].is_stale
    /\ ~info.a.branch_metadata[main].is_unborn

\* the (branch name, resolved id or absent) pairs of a repository
PairsIn(names, resolve) == {<<names[i], resolve[names[i]]>> : i \in 1..Len(names)}

\* C11: two repositories whose (branch name, resolved id or absent) pairs
\* differ feed different bytes to the hasher, so that their refs_hash differ.
C11_RefsHashDistinguishesPairs ==
    (info.called /\ PairsIn(enumA, oids) # PairsIn(enumB, oidsB))
    => info.a.refs_hash # info.b.refs_hash

-----------------------------------------------------------------------------
(* Properties of the history walker (checked under SpecCommits)            *)

IsWalk(c) == c.op \in {"get_commits", "get_commits_local"}

\* what the revision text of a call names
Named(c) == revs[IF c.rev = "" THEN "HEAD" ELSE c.rev]

\* the commits that can be reached from c through parent links
RECURSIVE Ancestry(_)
Ancestry(c) ==
    {c} \cup UNION { Ancestry(commits[c].parents[i]) : i \in 1..Len(commits[c].parents) }

\* C13: for a revision that resolves, the walker returns min(limit, number of
\* reachable commits) commits, each once, every commit before its parents, and
\* a more recent commit comes later only when one of its children had not
\* been shown yet.
C13_WalkBoundedTopological ==
    (IsWalk(call) /\ Named(call).code = "ok")
    => LET out == ret.out
           R == Ancestry(Named(call).id)
           sha(i) == out[i].sha
           ParentsOf(c) == {commits[c].parents[i] : i \in 1..Len(commits[c].parents)}
       IN /\ ret.ok
          /\ Len(out) = (IF call.limit < Cardinality(R) THEN call.limit ELSE Cardinality(R))
          /\ Len(out) <= call.limit
          /\ \A i \in 1..Len(out) : sha(i) \in R
          /\ \A i, j \in 1..Len(out) : i # j => sha(i) # sha(j)
          /\ \A i, j \in 1..Len(out) : sha(j) \in ParentsOf(sha(i)) => i < j
          /\ \A i, j \in 1..Len(out) :
                (i < j /\ commits[sha(j)].time > commits[sha(i)].time)
                => \E k \in i..(j - 1) : sha(j) \in ParentsOf(sha(k))

\* a merge whose parents are more recent than the merge itself, cut by the limit
C13_Witness ==
    /\ call.op = "get_commits" /\ call.rev = "main" /\ call.limit = 3
    /\ commits[MaxCommits].parents = <<MaxCommits - 1, MaxCommits - 2>>
    /\ commits[MaxCommits - 1].parents = <<MaxCommits - 3>>
    /\ commits[MaxCommits - 1].time > commits[MaxCommits].time
    /\ ret.ok /\ Len(ret.out) = 3
    /\ ret.out[1].sha = MaxCommits /\ ret.out[1].is_merge

\* C14: an empty revision text is walked from HEAD, and a revision that is
\* unborn or does not exist gives success with an empty list, whatever the limit.
C14_EmptyIsHeadMissingIsEmpty ==
    IsWalk(call)
    => /\ Named(call).code \in {"UnbornBranch", "NotFound"} => ret.ok /\ ret.out = <<>>
       /\ (call.rev = "" /\ revs["HEAD"].code = "ok" /\ call.limit > 0)
          => ret.ok /\ ret.out # <<>> /\ ret.out[1].sha = revs["HEAD"].id

C14_Witness ==
    /\ call.op = "get_commits_local" /\ call.rev = "" /\ call.limit = MaxCommits
    /\ revs["HEAD"].code = "UnbornBranch"
    /\ ret.ok /\ ret.out = <<>>

-----------------------------------------------------------------------------
(* Properties of the two diff paths (checked under SpecDiff)               *)

\* the lines of a text: each ends at a newline, the last one may end at the
\* end of the text
RECURSIVE LinesOf(_, _)
LinesOf(text, line) ==
    IF text = <<>> THEN (IF line = <<>> THEN <<>> ELSE <<line>>)
    ELSE IF text[1] = NL THEN <<line>> \o LinesOf(Tail(text), <<>>)
    ELSE LinesOf(Tail(text), Append(line, text[1]))

Numbers(h) == <<h.old_start, h.old_count, h.new_start, h.new_count>>

\* C15: get_file_diff of a file that the commit adds gives the /dev/null file
\* header and one hunk -0,0 +1,n whose lines are the header and the n lines of
\* the file, each after a '+'; a file that the commit deletes gives one hunk
\* with new_start = 0 and new_count = 0 whose lines each start with '-'.
C15_WholeFileHunk ==
    (call.op = "get_file_diff" /\ call.path = FileF /\ objects.resolves)
    => LET h == ret.out.hunks[1]
           Signed(text, sign) ==
               LET ls == LinesOf(text, <<>>)
               IN /\ Len(h.lines) = Len(ls) + 1
                  /\ \A i \in 1..Len(ls) : h.lines[i + 1] = <<sign>> \o ls[i]
       IN /\ (objects.parent = None /\ objects.current # None)
             => /\ ret.ok
                /\ starts_with(ret.out.diff,
                       <<"-", "-", "-", " ">> \o DevNull \o <<NL>>
                       \o <<"+", "+", "+", " ", "b", "/">> \o FileF \o <<NL>>)
                /\ Len(ret.out.hunks) = 1
                /\ Numbers(h) = <<0, 0, 1, Len(LinesOf(objects.current[1], <<>>))>>
                /\ Signed(objects.current[1], "+")
          /\ (objects.parent # None /\ objects.current = None)
             => /\ ret.ok
                /\ Len(ret.out.hunks) = 1
                /\ h.new_start = 0 /\ h.new_count = 0
                /\ h.old_count = Len(LinesOf(objects.parent[1], <<>>))
                /\ Signed(objects.parent[1], "-")

\* a root commit that adds a file of two lines ending with a newline
C15_Witness ==
    /\ call.op = "get_file_diff" /\ call.path = FileF
    /\ objects.resolves /\ ~objects.has_parent
    /\ objects.current = Some(<<"x", NL, "y", NL>>)
    /\ ret.ok /\ Len(ret.out.hunks) = 1
    /\ ret.out.hunks[1].new_count = 2
    /\ ret.out.hunks[1].lines[3] = <<"+", "y">>

\* C16: for a commit with a parent, get_diff with the ref and get_file_diff
\* give hunk lists of the same length with the same four numbers at each
\* position.
C16_DiffPathsAgree ==
    ( /\ diffs.textual # None /\ diffs.structured # None
      /\ objects.resolves /\ objects.has_parent
      /\ diffs.textual[1].ref # None
      /\ diffs.textual[1].path = diffs.structured[1].path )
    => LET a == diffs.textual[1].ret.out.hunks
           b == diffs.structured[1].ret.out.hunks
       IN /\ Len(a) = Len(b)
          /\ \A i \in 1..Len(a) : Numbers(a[i]) = Numbers(b[i])

\* C20: get_diff with a ref that names no commit returns success with an
\* empty diff text and no hunks.
C20_UnresolvedRefEmpty ==
    (call.op = "get_diff" /\ call.ref # None /\ ~objects.resolves)
    => ret.ok /\ ret.out.diff = <<>> /\ ret.out.hunks = <<>>

-----------------------------------------------------------------------------
(* Properties of the commands on a repository that is not there           *)
(* (checked under SpecMissing)                                             *)

\* C17: a command called while the repository path is missing or is not a
\* directory returns a failure.
C17_MissingRepositoryFails ==
    [][(repo_dir \in {"missing", "file"}) => ~ret'.ok]_vars

-----------------------------------------------------------------------------
(* Properties of the parsers on texts that are not the porcelain format    *)
(* (checked under SpecStatusBytes)                                         *)

\* a line of the porcelain format: two status characters, a space, a path
\* with at most one rename separator
WellFormed(l) ==
    /\ Len(l) >= 4 /\ l[1] # Wide /\ l[2] # Wide /\ l[3] = " "
    /\ Len(split(SubSeq(l, 4, Len(l)), Arrow)) <= 2

\* C18: on every status text get_status and get_conflicts return a result
\* (they do not panic), and what they list is the well-formed lines of the
\* text (for get_conflicts: those with a conflict code), every other line
\* being skipped.
C18_MalformedLinesSkipped ==
    parsed.op # "none"
    => /\ "panicked" \notin DOMAIN parsed
       /\ LET good == SelectSeq(split(status_out, <<NL>>), WellFormed)
              Conflict(l) == is_conflict(l[1], l[2])
              listed == IF parsed.op = "get_status" THEN good ELSE SelectSeq(good, Conflict)
          IN Len(parsed.out.files) = Len(listed)

-----------------------------------------------------------------------------
(* Properties of concurrent commands (checked under SpecThreads)           *)

\* C19: two commands on different repositories run in parallel: a command
\* that has been invoked never has to wait for the other command to return
\* before it goes on to its own git subprocess.
C19_NeitherWaits ==
    \A t \in Threads :
        (threads[t].pc = "lock" /\ ~config.poisoned) => ENABLED Lock(t)

-----------------------------------------------------------------------------
(* Properties of the patch stage builds (checked under SpecStaging)        *)

\* the lines of a diff kept for the hunk set S: every line before the first
\* "@@" line, and every line of the hunks numbered in S (a hunk runs from its
\* "@@" line to the line before the next one, or to the end)
HeaderAndHunks(lines, S) ==
    LET number(j) == Cardinality({k \in 1..j : starts_with(lines[k], <<"@", "@">>)}) - 1
        kept(j) == number(j) = -1 \/ number(j) \in S
    IN Flatten([j \in 1..Len(lines) |-> IF kept(j) THEN <<lines[j]>> ELSE <<>>])

\* C21: the patch a stage call builds for the hunk set S is the header lines
\* of the path's unstaged diff followed by the lines of the hunks numbered in
\* S, in order.
C21_PatchIsHeaderPlusHunks ==
    [][ (IsStageWithHunks(call') /\ call'.patch # None)
        => call'.patch[1] =
             join(HeaderAndHunks(split(git_diff(worktree, index, call'.path), <<NL>>),
                                 HunkSet(call')), <<NL>>) \o <<NL>> ]_vars

-----------------------------------------------------------------------------
(* Properties of the hunk parser and of stage's numbering (checked under   *)
(* SpecHunks)                                                              *)

\* the positions (from 1) of the lines that start with "@@", and the k-th of them
Headers(lines) == {j \in 1..Len(lines) : starts_with(lines[j], <<"@", "@">>)}
HeaderAt(lines, k) ==
    CHOOSE j \in Headers(lines) : Cardinality({i \in Headers(lines) : i <= j}) = k

\* the lines from the k-th header to the line before the next header, or to the end
HunkText(lines, k) ==
    SubSeq(lines, HeaderAt(lines, k),
           IF k < Cardinality(Headers(lines)) THEN HeaderAt(lines, k + 1) - 1 ELSE Len(lines))

\* C22: hunk number i of a stage request is entry i of the list parse_hunks
\* returns for the same diff text: the lines stage keeps for a hunk set are
\* the lines of the entries with those numbers, in order.
C22_StageNumbersAsParser ==
    call.op = "select_hunks"
    => LET picked(hs) ==
               Flatten([k \in 1..Len(hs) |->
                          IF (k - 1) \in HunkSet(call) THEN hs[k].lines ELSE <<>>])
       IN ret.out = picked(parse_hunks(diff_stdout))

\* the four numbers "@@ -a[,b] +c[,d] @@" names, in digits, an omitted count
\* read as 1
HeaderNumbers(line) ==
    LET pair(tok) == split(Tail(tok), <<",">>)
        both(p) == <<strip_zeros(p[1]), IF Len(p) > 1 THEN strip_zeros(p[2]) ELSE <<"1">> >>
        fields(toks) == both(pair(toks[2])) \o both(pair(toks[3]))
    IN fields(split(line, <<" ">>))

\* C23: parse_hunks returns one hunk per "@@" line, in order; each hunk has
\* the numbers of its header (an omitted count read as 1), the header and
\* every line up to the next header or the end as its lines, and the
\* zero-based index of its header as line_start.
C23_OneHunkPerHeader ==
    call.op = "parse_hunks"
    => LET Matches(lines, hs) ==
               /\ Len(hs) = Cardinality(Headers(lines))
               /\ \A k \in 1..Len(hs) :
                     /\ hs[k].line_start = HeaderAt(lines, k) - 1
                     /\ hs[k].lines = HunkText(lines, k)
                     /\ <<to_string(hs[k].old_start), to_string(hs[k].old_count),
                          to_string(hs[k].new_start), to_string(hs[k].new_count)>>
                        = HeaderNumbers(lines[HeaderAt(lines, k)])
       IN Matches(split(diff_stdout, <<NL>>), ret.out)

-----------------------------------------------------------------------------
(* Properties of the paths get_conflicts reports (checked under            *)
(* SpecStatusBytes)                                                        *)

\* the path a porcelain line names: the text after the two status
\* characters and the space, or the new path of "old -> new"
PathOf(l) ==
    LET named(text) == IF contains(text, Arrow) THEN split(text, Arrow)[2] ELSE text
    IN named(SubSeq(l, 4, Len(l)))

\* C24: on a status text of well-formed lines, the paths get_conflicts
\* reports are, line by line, the paths named by the lines whose two status
\* characters are a conflict code, also when the first status character is
\* a space.
C24_ConflictPaths ==
    (/\ parsed.op = "get_conflicts"
     /\ \A l \in Range(split(status_out, <<NL>>)) : WellFormed(l))
    => /\ "panicked" \notin DOMAIN parsed
       /\ LET Conflict(l) == is_conflict(l[1], l[2])
              named(ls) == [i \in 1..Len(ls) |-> PathOf(ls[i])]
              paths(fs) == [i \in 1..Len(fs) |-> fs[i].path]
          IN paths(parsed.out.files)
             = named(SelectSeq(split(status_out, <<NL>>), Conflict))

-----------------------------------------------------------------------------
(* Properties of the stale flag (checked under SpecBranches)               *)

\* C25: a branch that resolves is reported stale exactly when the current
\* time minus the time of its tip commit is more than 90 days, by however
\* little; an age of 90 days or less, a commit in the future included, is
\* not stale.
C25_StaleAboveNinetyDays ==
    info.called
    => \A i \in 1..Len(enumA) :
          oids[enumA[i]] # None
          => (info.a.branch_metadata[enumA[i]].is_stale
              <=> now - commit_time(oids[enumA[i]][1]) > 90 * SecondsPerDay)

-----------------------------------------------------------------------------
(* Properties of get_diff on a commit without a parent (checked under      *)
(* SpecDiff)                                                               *)

\* C26: get_diff with a ref that resolves and has no parent succeeds with no
\* hunks, and the lines of its diff text are the lines of the file at the
\* ref, in order, each after the single character "+".
C26_InitialCommitAdditions ==
    (/\ call.op = "get_diff" /\ call.ref # None /\ call.path = FileF
     /\ objects.resolves /\ ~objects.has_parent /\ objects.current # None)
    => /\ ret.ok
       /\ ret.out.hunks = <<>>
       /\ LET plus(lines) == [i \in 1..Len(lines) |-> <<"+">> \o lines[i]]
          IN str_lines(ret.out.diff) = plus(str_lines(objects.current[1]))

-----------------------------------------------------------------------------
(* Properties of fetch_all (checked under SpecFetch)                       *)

\* C27: when every remote is found, fetch_all calls fetch on the remotes in
\* order; a remote whose fetch fails on authentication is passed over and the
\* remotes after it are fetched, and the call succeeds when no fetch failed
\* otherwise; the first fetch that fails otherwise makes the call fail with
\* that error, and no remote after it is fetched.
C27_AuthSkippedOthersAbort ==
    (call.op = "fetch_all" /\ InvalidSpec \notin Range(remotes))
    => LET bad == {i \in 1..Len(remotes) : remotes[i] \notin {"Ok", "Auth"}}
           upto(n) == [i \in 1..n |-> i]
           first(S) == CHOOSE i \in S : \A j \in S : i <= j
       IN IF bad = {}
          THEN ret.ok /\ fetched = upto(Len(remotes))
          ELSE /\ ~ret.ok
               /\ ret.err = remotes[first(bad)]
               /\ fetched = upto(first(bad))

\* an authentication failure before a successful fetch and before a network
\* failure that ends the call
C27_Witness ==
    /\ call.op = "fetch_all"
    /\ remotes = <<"Auth", "Ok", "Net">>
    /\ fetched = <<1, 2, 3>>
    /\ ~ret.ok /\ ret.err = "Net"

-----------------------------------------------------------------------------
(* Properties of a command that is run again (checked under SpecRecovery)  *)

\* C28: when resolve_conflict has stopped after its write step, the file
\* holds the new content and the index entry of the path is as it was, and
\* the same call made again ends in the state of one successful call made
\* without the stop; when a stage call with hunks has stopped after it wrote
\* the scratch patch, the same call made again ends with the index of one
\* call made without the stop.
C28_RerunRecovers ==
    [][ (call'.op \in {"resolve_conflict", "stage"} /\ call'.again)
        => LET Resolved(s0, once) ==
                   /\ worktree[call.path] = Some(call.content)
                   /\ index[call.path] = s0.index[call.path]
                   /\ once.ret.ok => /\ ret'.ok
                                     /\ worktree' = once.worktree
                                     /\ index' = once.index
                                     /\ dirs' = once.dirs
               Staged(s0, once) ==
                   /\ worktree = s0.worktree
                   /\ index' = once.index
           IN IF call.op = "resolve_conflict"
              THEN Resolved(interrupted[1],
                            resolve_conflict(call.path, call.content, "none",
                                             interrupted[1].repo_dir,
                                             interrupted[1].worktree,
                                             interrupted[1].index, interrupted[1].dirs))
              ELSE Staged(interrupted[1],
                          stage(call.path, call.hunks, "none", interrupted[1].worktree,
                                interrupted[1].index, interrupted[1].scratch)) ]_vars

\* resolve_conflict, run again after its stage step had failed, has resolved
\* a path that was conflicted
C28_Witness ==
    /\ call.op = "resolve_conflict" /\ call.again /\ ret.ok
    /\ call.path \in initial_conflicts
    /\ worktree[call.path] = Some(Resolution)
    /\ index[call.path] = Merged(Resolution)

-----------------------------------------------------------------------------
(* Properties of get_conflict_file (checked under SpecConflicts)           *)

\* C29: get_conflict_file succeeds whichever stages of the path the index
\* holds: base is the content of stage 1 or empty, theirs the content of
\* stage 3 or empty, mine the content of stage 2 when the index holds it,
\* otherwise the content of the working-tree file, otherwise empty; the call
\* leaves the index and the working tree as they are.
C29_ThreeSidesTolerant ==
    [][ call'.op = "get_conflict_file"
        => LET Held(e) == IF e.kind = "unmerged" THEN stages_of(e.code) ELSE {}
               Side(e, n) == IF n \in Held(e) THEN stage_blob(n) ELSE <<>>
               File(f) == IF f = None THEN <<>> ELSE f[1]
               Sides(e, f, out) ==
                   /\ out.base = Side(e, 1)
                   /\ out.theirs = Side(e, 3)
                   /\ out.mine = IF 2 \in Held(e) THEN stage_blob(2) ELSE File(f)
           IN /\ ret'.ok
              /\ Sides(index[call'.path], worktree[call'.path], ret'.out)
              /\ index' = index /\ worktree' = worktree ]_vars

\* a path deleted on our side and modified on theirs, with a file in the
\* working tree: mine is the file
C29_Witness ==
    /\ call.op = "get_conflict_file"
    /\ index[call.path] = Unmerged(<<"D", "U">>)
    /\ worktree[call.path] # None
    /\ ret.ok
    /\ ret.out.base = Base /\ ret.out.theirs = Theirs
    /\ ret.out.mine = worktree[call.path][1]

-----------------------------------------------------------------------------
(* Properties of concurrent stage calls (checked under SpecStageThreads)   *)

\* C30: of two stage calls with hunks that run at the same time on one
\* repository, each has the scratch file to itself from its write to its
\* return: while a call waits for git apply the file holds the patch that
\* call wrote, and the patch git apply has read for a call is the patch that
\* call wrote.
C30_AppliesOwnPatch ==
    \A t \in Threads :
        /\ (threads[t].pc = "git" /\ threads[t].step = 2 /\ threads[t].patch # None)
           => scratch = threads[t].patch
        /\ (threads[t].pc = "idle" /\ threads[t].last \in {"returned", "failed"})
           => threads[t].applied = threads[t].patch

\* one call has applied its patch for hunk 0, the other waits for git apply
\* with its patch for hunk 1 in the file
C30_Witness ==
    /\ threads[1].pc = "idle" /\ threads[1].last = "failed"
    /\ threads[1].hunks = <<0>> /\ threads[1].applied # None
    /\ threads[2].pc = "git" /\ threads[2].step = 2 /\ threads[2].hunks = <<1>>
    /\ scratch # threads[1].applied

-----------------------------------------------------------------------------
====
